---- MODULE Spec2Model ----
(***************************************************************************)
(* rgi: the fzf argument builders (rgi/fzf.py, rgi/fzfui/app.py), the      *)
(* pinned/inline mode toggle and the shell snippet templates.              *)
(*                                                                         *)
(* A Python str is a sequence of one-character strings, a List[str] is a   *)
(* sequence of such sequences, and an Optional[str] is <<>> (None) or      *)
(* <<s>>.                                                                  *)
(***************************************************************************)
EXTENDS Integers, Sequences, FiniteSets, TLC

VARIABLES
    \* the argument builder in use
    cls, config, _bindings, _actions, args, command_string,
    \* the pinned/inline mode toggle
    mode, header, query, prev, toggles,
    \* the shell snippets: the working directory, the mode-state file, the
    \* query line of the finder, and the last snippet run
    files, state_file, FZF_QUERY, run,
    \* the last fragment a builder of the shell scripts returned
    fragment,
    \* the finder at startup: its query line, cursor and result binding
    finder,
    \* one run of the command line entry point
    cli

builderVars == <<cls, config, _bindings, _actions, args, command_string>>
toggleVars == <<mode, header, query, prev, toggles>>
shellVars == <<files, state_file, FZF_QUERY, run>>
hostVars == <<fragment, finder, cli>>
vars == <<builderVars, toggleVars, shellVars, hostVars>>

----------------------------------------------------------------------------
(* Bounds of the model *)

\* at most this many add_binding / action registrations on one builder
MaxBindings == 2

\* at most this many Configuration fields differ from their defaults
MaxChanged == 2

----------------------------------------------------------------------------
(* String literals of the builders *)

FZF ==
    <<"f", "z", "f">>
WITH_SHELL ==
    <<"-", "-", "w", "i", "t", "h", "-", "s", "h", "e", "l", "l">>
HEIGHT ==
    <<"-", "-", "h", "e", "i", "g", "h", "t">>
LAYOUT ==
    <<"-", "-", "l", "a", "y", "o", "u", "t">>
PROMPT ==
    <<"-", "-", "p", "r", "o", "m", "p", "t">>
INFO ==
    <<"-", "-", "i", "n", "f", "o">>
ANSI ==
    <<"-", "-", "a", "n", "s", "i">>
DISABLED ==
    <<"-", "-", "d", "i", "s", "a", "b", "l", "e", "d">>
DASH_D ==
    <<"-", "d">>
NO_BORDER ==
    <<"-", "-", "n", "o", "-", "b", "o", "r", "d", "e", "r">>
QUERY ==
    <<"-", "-", "q", "u", "e", "r", "y">>
PREVIEW ==
    <<"-", "-", "p", "r", "e", "v", "i", "e", "w">>
PREVIEW_WINDOW ==
    <<"-", "-", "p", "r", "e", "v", "i", "e", "w", "-", "w", "i", "n", "d", "o", "w">>
HISTORY ==
    <<"-", "-", "h", "i", "s", "t", "o", "r", "y">>
FOOTER ==
    <<"-", "-", "f", "o", "o", "t", "e", "r">>
BIND ==
    <<"-", "-", "b", "i", "n", "d">>
COLON ==
    <<":">>
default_height ==
    <<"1", "0", "0", "%">>
default_layout ==
    <<"r", "e", "v", "e", "r", "s", "e">>
default_prompt ==
    <<" ">>
default_info ==
    <<"h", "i", "d", "d", "e", "n">>
default_preview_window ==
    <<"u", "p", ",", "7", "0", "%", ",", "~", "3", ",", "n", "o", "i", "n", "f", "o">>
default_shell ==
    <<"b", "a", "s", "h", " ", "-", "c">>
ctrl_k ==
    <<"c", "t", "r", "l", "-", "k">>
ctrl_p ==
    <<"c", "t", "r", "l", "-", "p">>
kill_line ==
    <<"k", "i", "l", "l", "-", "l", "i", "n", "e">>
up ==
    <<"u", "p">>

\* Optional[str]
None == <<>>
Some(s) == <<s>>

\* Python truthiness of a str and of an Optional[str]
Truthy(s) == s # <<>>
TruthyOpt(o) == o # None /\ o[1] # <<>>

----------------------------------------------------------------------------
(* Configuration *)

\* FzfConfig(): every field at its default
FzfConfig ==
    [ height |-> default_height,
      layout |-> default_layout,
      prompt |-> default_prompt,
      info |-> default_info,
      ansi |-> TRUE,
      disabled |-> FALSE,
      delimiter |-> <<>>,
      initial_query |-> <<>>,
      preview_command |-> None,
      preview_window |-> default_preview_window,
      history_file |-> None,
      footer |-> <<>>,
      no_border |-> TRUE,
      shell |-> default_shell,
      bindings |-> <<>>,
      extra_args |-> <<>> ]

\* Config(): the same fields, the raw flags being called fzf_options
Config ==
    [ height |-> default_height,
      layout |-> default_layout,
      prompt |-> default_prompt,
      info |-> default_info,
      ansi |-> TRUE,
      disabled |-> FALSE,
      delimiter |-> <<>>,
      initial_query |-> <<>>,
      preview_command |-> None,
      preview_window |-> default_preview_window,
      history_file |-> None,
      footer |-> <<>>,
      no_border |-> TRUE,
      shell |-> default_shell,
      bindings |-> <<>>,
      fzf_options |-> <<>> ]

----------------------------------------------------------------------------
(* The argument order the specification states, as a table: one row per    *)
(* flag, in order, with the condition under which the row is present.      *)

Row(on, toks) == [on |-> on, toks |-> toks]

\* the rows' tokens, in order, leaving out the rows that are not present
RECURSIVE Flatten(_)
Flatten(rows) ==
    IF rows = <<>> THEN <<>>
    ELSE (IF Head(rows).on THEN Head(rows).toks ELSE <<>>) \o Flatten(Tail(rows))

EngineRows(cfg) ==
    << Row(TRUE, <<FZF>>), Row(TRUE, <<WITH_SHELL, cfg.shell>>) >>

DisplayRows(cfg) ==
    << Row(TRUE, <<HEIGHT, cfg.height>>),
       Row(TRUE, <<LAYOUT, cfg.layout>>),
       Row(TRUE, <<PROMPT, cfg.prompt>>),
       Row(TRUE, <<INFO, cfg.info>>) >>

BooleanRows(cfg) ==
    << Row(cfg.ansi, <<ANSI>>),
       Row(cfg.disabled, <<DISABLED>>),
       Row(cfg.delimiter # <<>>, <<DASH_D, cfg.delimiter>>),
       Row(cfg.no_border, <<NO_BORDER>>) >>

QueryRows(cfg) ==
    << Row(cfg.initial_query # <<>>, <<QUERY, cfg.initial_query>>) >>

PreviewSet(cfg) == cfg.preview_command \notin {None, Some(<<>>)}

PreviewRows(cfg) ==
    << Row(PreviewSet(cfg),
           <<PREVIEW, IF PreviewSet(cfg) THEN cfg.preview_command[1] ELSE <<>>,
             PREVIEW_WINDOW, cfg.preview_window>>) >>

HistoryRows(cfg) ==
    << Row(cfg.history_file \notin {None, Some(<<>>)},
           <<HISTORY, IF cfg.history_file = None THEN <<>> ELSE cfg.history_file[1]>>) >>

FooterRows(cfg) ==
    << Row(TRUE, <<FOOTER, cfg.footer>>) >>

MapRows(cfg) ==
    [i \in 1..Len(cfg.bindings) |->
        Row(TRUE, <<BIND, cfg.bindings[i][1] \o <<":">> \o cfg.bindings[i][2]>>)]

RegisteredRows(regs) ==
    [i \in 1..Len(regs) |->
        Row(TRUE, <<BIND, regs[i].key \o <<":">> \o regs[i].action>>)]

RawRows(rawflags) ==
    << Row(TRUE, rawflags) >>

OrderTable(cfg, regs, rawflags) ==
    EngineRows(cfg) \o DisplayRows(cfg) \o BooleanRows(cfg) \o QueryRows(cfg)
    \o PreviewRows(cfg) \o HistoryRows(cfg) \o FooterRows(cfg)
    \o MapRows(cfg) \o RegisteredRows(regs) \o RawRows(rawflags)

\* s.strip(): s without its leading and trailing blanks
RECURSIVE lstrip(_)
lstrip(s) == IF s # <<>> /\ Head(s) = " " THEN lstrip(Tail(s)) ELSE s
RECURSIVE rstrip(_)
rstrip(s) ==
    IF s # <<>> /\ s[Len(s)] = " " THEN rstrip(SubSeq(s, 1, Len(s) - 1)) ELSE s
strip(s) == rstrip(lstrip(s))

----------------------------------------------------------------------------
(* Variants of the builders' code with one plausible slip each *)

\* the registered bindings emitted ahead of the config.bindings entries
build_args_registered_first(cfg, regs) ==
    Flatten(EngineRows(cfg) \o DisplayRows(cfg) \o BooleanRows(cfg)
            \o QueryRows(cfg) \o PreviewRows(cfg) \o HistoryRows(cfg)
            \o FooterRows(cfg) \o RegisteredRows(regs) \o MapRows(cfg)
            \o RawRows(cfg.extra_args))

\* the footer flag emitted only for a non-empty footer (no else branch)
build_args_no_empty_footer(cfg, regs) ==
    Flatten(EngineRows(cfg) \o DisplayRows(cfg) \o BooleanRows(cfg)
            \o QueryRows(cfg) \o PreviewRows(cfg) \o HistoryRows(cfg)
            \o << Row(cfg.footer # <<>>, <<FOOTER, cfg.footer>>) >>
            \o MapRows(cfg) \o RegisteredRows(regs) \o RawRows(cfg.extra_args))

\* --preview-window emitted outside the `if preview_command` block
build_args_window_always(cfg, regs) ==
    Flatten(EngineRows(cfg) \o DisplayRows(cfg) \o BooleanRows(cfg)
            \o QueryRows(cfg)
            \o << Row(PreviewSet(cfg),
                      <<PREVIEW, IF PreviewSet(cfg) THEN cfg.preview_command[1]
                                 ELSE <<>> >>),
                  Row(TRUE, <<PREVIEW_WINDOW, cfg.preview_window>>) >>
            \o HistoryRows(cfg) \o FooterRows(cfg)
            \o MapRows(cfg) \o RegisteredRows(regs) \o RawRows(cfg.extra_args))

\* the shell and delimiter values passed through str.strip()
build_args_stripped(cfg, regs) ==
    Flatten(<< Row(TRUE, <<FZF>>), Row(TRUE, <<WITH_SHELL, strip(cfg.shell)>>) >>
            \o DisplayRows(cfg)
            \o << Row(cfg.ansi, <<ANSI>>),
                  Row(cfg.disabled, <<DISABLED>>),
                  Row(cfg.delimiter # <<>>, <<DASH_D, strip(cfg.delimiter)>>),
                  Row(cfg.no_border, <<NO_BORDER>>) >>
            \o QueryRows(cfg) \o PreviewRows(cfg) \o HistoryRows(cfg)
            \o FooterRows(cfg)
            \o MapRows(cfg) \o RegisteredRows(regs) \o RawRows(cfg.extra_args))

\* shlex.quote without the replacement of the single quotes inside s
quote_unescaped(s) ==
    IF s = <<>> THEN <<"'", "'">>
    ELSE IF \A i \in 1..Len(s) :
              s[i] \in { "a", "b", "c", "d", "e", "f", "g", "h", "i", "j", "k",
                         "l", "m", "n", "o", "p", "q", "r", "s", "t", "u", "v",
                         "w", "x", "y", "z", "0", "1", "2", "3", "4", "5", "6",
                         "7", "8", "9", "_", "@", "%", "+", "=", ":", ",", ".",
                         "/", "-" }
         THEN s
    ELSE <<"'">> \o s \o <<"'">>

----------------------------------------------------------------------------
(* The builders *)

\* shlex.quote's safe characters: [\w@%+=:,./-] under re.ASCII
SafeChars ==
    { "a", "b", "c", "d", "e", "f", "g", "h", "i", "j", "k", "l", "m",
      "n", "o", "p", "q", "r", "s", "t", "u", "v", "w", "x", "y", "z",
      "A", "B", "C", "D", "E", "F", "G", "H", "I", "J", "K", "L", "M",
      "N", "O", "P", "Q", "R", "S", "T", "U", "V", "W", "X", "Y", "Z",
      "0", "1", "2", "3", "4", "5", "6", "7", "8", "9", "_",
      "@", "%", "+", "=", ":", ",", ".", "/", "-" }

\* s.replace("'", "'\"'\"'")
RECURSIVE replace_quote(_)
replace_quote(s) ==
    IF s = <<>> THEN <<>>
    ELSE (IF Head(s) = "'" THEN <<"'", "\"", "'", "\"", "'">> ELSE <<Head(s)>>)
         \o replace_quote(Tail(s))

\* shlex.quote(s)
quote(s) ==
    IF s = <<>> THEN <<"'", "'">>
    ELSE IF \A i \in 1..Len(s) : s[i] \in SafeChars THEN s
    ELSE <<"'">> \o replace_quote(s) \o <<"'">>

\* " ".join(words)
RECURSIVE join(_)
join(words) ==
    IF words = <<>> THEN <<>>
    ELSE IF Len(words) = 1 THEN words[1]
    ELSE words[1] \o <<" ">> \o join(Tail(words))

\* [f(x) for x in xs] with f = shlex.quote
RECURSIVE quote_all(_)
quote_all(xs) ==
    IF xs = <<>> THEN <<>> ELSE <<quote(Head(xs))>> \o quote_all(Tail(xs))

\* for key, action in bindings.items(): args.extend(["--bind", f"{key}:{action}"])
RECURSIVE extend_map_bindings(_, _)
extend_map_bindings(a, items) ==
    IF items = <<>> THEN a
    ELSE extend_map_bindings(
             a \o <<BIND, items[1][1] \o COLON \o items[1][2]>>, Tail(items))

\* for binding in self._bindings: args.extend(["--bind", f"{binding.key}:{binding.action}"])
RECURSIVE extend_registered(_, _)
extend_registered(a, regs) ==
    IF regs = <<>> THEN a
    ELSE extend_registered(
             a \o <<BIND, regs[1].key \o COLON \o regs[1].action>>, Tail(regs))

\* for act in self._actions: args.extend(["--bind", f"{act.key}:{act.action}"])
RECURSIVE extend_actions(_, _)
extend_actions(a, acts) ==
    IF acts = <<>> THEN a
    ELSE extend_actions(
             a \o <<BIND, acts[1].key \o COLON \o acts[1].action>>, Tail(acts))

\* FzfCommandBuilder.build_args: args = ["fzf"], then one extend/append per statement
FzfCommandBuilder_build_args(cfg, regs) ==
    LET a0 == <<FZF>>
        a1 == a0 \o <<WITH_SHELL, cfg.shell>>
        a2 == a1 \o <<HEIGHT, cfg.height>>
        a3 == a2 \o <<LAYOUT, cfg.layout>>
        a4 == a3 \o <<PROMPT, cfg.prompt>>
        a5 == a4 \o <<INFO, cfg.info>>
        a6 == IF cfg.ansi THEN Append(a5, ANSI) ELSE a5
        a7 == IF cfg.disabled THEN Append(a6, DISABLED) ELSE a6
        a8 == IF Truthy(cfg.delimiter) THEN a7 \o <<DASH_D, cfg.delimiter>> ELSE a7
        a9 == IF cfg.no_border THEN Append(a8, NO_BORDER) ELSE a8
        a10 == IF Truthy(cfg.initial_query)
               THEN a9 \o <<QUERY, cfg.initial_query>> ELSE a9
        a11 == IF TruthyOpt(cfg.preview_command)
               THEN (a10 \o <<PREVIEW, cfg.preview_command[1]>>)
                    \o <<PREVIEW_WINDOW, cfg.preview_window>>
               ELSE a10
        a12 == IF TruthyOpt(cfg.history_file)
               THEN a11 \o <<HISTORY, cfg.history_file[1]>> ELSE a11
        a13 == IF Truthy(cfg.footer)
               THEN a12 \o <<FOOTER, cfg.footer>>
               ELSE a12 \o <<FOOTER, <<>> >>
        a14 == extend_map_bindings(a13, cfg.bindings)
        a15 == extend_registered(a14, regs)
    IN  a15 \o cfg.extra_args

\* App.build_args emitting the extra fzf options ahead of the bindings
App_build_args_options_first(cfg, regs) ==
    LET a0 == <<FZF>>
        a1 == a0 \o <<WITH_SHELL, cfg.shell>>
        a2 == a1 \o <<HEIGHT, cfg.height>>
        a3 == a2 \o <<LAYOUT, cfg.layout>>
        a4 == a3 \o <<PROMPT, cfg.prompt>>
        a5 == a4 \o <<INFO, cfg.info>>
        a6 == IF cfg.ansi THEN Append(a5, ANSI) ELSE a5
        a7 == IF cfg.disabled THEN Append(a6, DISABLED) ELSE a6
        a8 == IF Truthy(cfg.delimiter) THEN a7 \o <<DASH_D, cfg.delimiter>> ELSE a7
        a9 == IF cfg.no_border THEN Append(a8, NO_BORDER) ELSE a8
        a10 == IF Truthy(cfg.initial_query)
               THEN a9 \o <<QUERY, cfg.initial_query>> ELSE a9
        a11 == IF TruthyOpt(cfg.preview_command)
               THEN (a10 \o <<PREVIEW, cfg.preview_command[1]>>)
                    \o <<PREVIEW_WINDOW, cfg.preview_window>>
               ELSE a10
        a12 == IF TruthyOpt(cfg.history_file)
               THEN a11 \o <<HISTORY, cfg.history_file[1]>> ELSE a11
        a13 == IF Truthy(cfg.footer)
               THEN a12 \o <<FOOTER, cfg.footer>>
               ELSE a12 \o <<FOOTER, <<>> >>
        a14 == a13 \o cfg.fzf_options
    IN  extend_actions(extend_map_bindings(a14, cfg.bindings), regs)

\* App.build_args: the same statements over self._config and self._actions
App_build_args(cfg, regs) ==
    LET a0 == <<FZF>>
        a1 == a0 \o <<WITH_SHELL, cfg.shell>>
        a2 == a1 \o <<HEIGHT, cfg.height>>
        a3 == a2 \o <<LAYOUT, cfg.layout>>
        a4 == a3 \o <<PROMPT, cfg.prompt>>
        a5 == a4 \o <<INFO, cfg.info>>
        a6 == IF cfg.ansi THEN Append(a5, ANSI) ELSE a5
        a7 == IF cfg.disabled THEN Append(a6, DISABLED) ELSE a6
        a8 == IF Truthy(cfg.delimiter) THEN a7 \o <<DASH_D, cfg.delimiter>> ELSE a7
        a9 == IF cfg.no_border THEN Append(a8, NO_BORDER) ELSE a8
        a10 == IF Truthy(cfg.initial_query)
               THEN a9 \o <<QUERY, cfg.initial_query>> ELSE a9
        a11 == IF TruthyOpt(cfg.preview_command)
               THEN (a10 \o <<PREVIEW, cfg.preview_command[1]>>)
                    \o <<PREVIEW_WINDOW, cfg.preview_window>>
               ELSE a10
        a12 == IF TruthyOpt(cfg.history_file)
               THEN a11 \o <<HISTORY, cfg.history_file[1]>> ELSE a11
        a13 == IF Truthy(cfg.footer)
               THEN a12 \o <<FOOTER, cfg.footer>>
               ELSE a12 \o <<FOOTER, <<>> >>
        a14 == extend_map_bindings(a13, cfg.bindings)
        a15 == extend_actions(a14, regs)
    IN  a15 \o cfg.fzf_options

\* FzfCommandBuilder.build_command_string
FzfCommandBuilder_build_command_string(cfg, regs) ==
    join(quote_all(FzfCommandBuilder_build_args(cfg, regs)))

\* App.build_command_string
App_build_command_string(cfg, regs) ==
    join(quote_all(App_build_args(cfg, regs)))

----------------------------------------------------------------------------
(* Inputs: the configurations and registrations the builders are given *)

\* strings with nothing special, with surrounding blanks, with quotes, and
\* with characters the shell expands
S_plain == <<"x">>
S_space == <<" ", "a", " ">>
S_quote == <<"'", "\"">>
S_shell == <<"\\", "$">>

\* the values a field takes besides its default
FieldValues ==
    [ height |-> {S_quote},
      layout |-> {S_shell},
      prompt |-> {<<>>},
      info |-> {S_plain},
      ansi |-> {FALSE},
      disabled |-> {TRUE},
      delimiter |-> {S_space},
      initial_query |-> {S_quote},
      preview_command |-> {Some(<<>>), Some(S_space)},
      preview_window |-> {S_plain},
      history_file |-> {Some(<<>>), Some(S_shell)},
      footer |-> {S_space, FOOTER},
      no_border |-> {FALSE},
      shell |-> {S_space},
      bindings |-> { << <<ctrl_k, kill_line>> >>,
                     << <<ctrl_p, up>>, <<ctrl_k, kill_line>> >> },
      raw |-> { <<FOOTER, S_plain>>, <<S_quote, PREVIEW>> } ]

FieldOrder ==
    << "height", "layout", "prompt", "info", "ansi", "disabled", "delimiter",
       "initial_query", "preview_command", "preview_window", "history_file",
       "footer", "no_border", "shell", "bindings", "raw" >>

\* the configurations that differ from `base` in at most k of the fields
\* FieldOrder[i..]; rawField is the class's name for the raw flags
RECURSIVE Variants(_, _, _, _)
Variants(base, rawField, i, k) ==
    IF i > Len(FieldOrder) THEN {base}
    ELSE LET f == FieldOrder[i]
             g == IF f = "raw" THEN rawField ELSE f
         IN  Variants(base, rawField, i + 1, k)
             \cup (IF k = 0 THEN {}
                   ELSE { [c EXCEPT ![g] = v] :
                            c \in Variants(base, rawField, i + 1, k - 1),
                            v \in FieldValues[f] })

FzfConfigs == Variants(FzfConfig, "extra_args", 1, MaxChanged)
AppConfigs == Variants(Config, "fzf_options", 1, MaxChanged)

\* Binding(key, action, description) / Action(key, action, description)
Binding(key, action, description) ==
    [key |-> key, action |-> action, description |-> description]

Registrations ==
    { Binding(ctrl_k, up, <<>>), Binding(ctrl_k, S_quote, S_plain) }

----------------------------------------------------------------------------
(* State and operations *)

\* no toggle session: the toggle's variables at rest
ToggleIdle ==
    /\ mode = "inline"
    /\ header = <<>>
    /\ query = <<>>
    /\ prev = << <<>>, <<>> >>
    /\ toggles = 0

\* no snippet run yet, in an empty directory without a mode-state file;
\* a run records the script, the state file and query it read, the value of
\* cmd after its glob-expansion fragment, what it printed and what it ran
NoRun ==
    [script |-> "none", state |-> <<>>, config_args |-> <<>>, query |-> <<>>,
     cmd |-> <<>>, out |-> <<>>,
     ran |-> [env |-> <<>>, eval |-> <<>>, stderr |-> <<>>, pipe |-> <<>>],
     changes |-> 0]
ShellIdle ==
    /\ files = [names |-> {}, dirs |-> {}]
    /\ state_file = <<>>
    /\ FZF_QUERY = <<>>
    /\ run = NoRun

\* no fragment built yet
NoFragment ==
    [builder |-> "none", text |-> <<>>,
     values |-> [config_args |-> <<>>, implicit_opts |-> <<>>, delta |-> <<>>]]

\* no finder started: an empty query line, no binding for the result event
NoFinder == [query |-> <<>>, cursor |-> 0, bound |-> FALSE, positioned |-> 0,
             typed |-> 0, last |-> "none",
             was |-> [query |-> <<>>, cursor |-> 0]]

\* the entry point not called
NoCli == [pc |-> "idle", argv |-> <<>>, exists |-> FALSE, called |-> FALSE,
          launched |-> <<>>,
          child |-> "none", returncode |-> 0, raised |-> "none",
          stderr |-> "", exit |-> <<>>]

HostIdle ==
    /\ fragment = NoFragment
    /\ finder = NoFinder
    /\ cli = NoCli

\* The value a build call returned, with the number of registrations made
\* before the call; NoResult before the first call.
NoResult == [at |-> -1, value |-> <<>>]
Result(at, value) == [at |-> at, value |-> value]

\* FzfCommandBuilder(config) / App(config)
Init ==
    /\ cls \in {"FzfCommandBuilder", "App"}
    /\ config \in (IF cls = "App" THEN AppConfigs ELSE FzfConfigs)
    /\ _bindings = <<>>
    /\ _actions = <<>>
    /\ args = NoResult
    /\ command_string = NoResult
    /\ ToggleIdle
    /\ ShellIdle
    /\ HostIdle

\* add_binding keeping one binding per key, a later one replacing an earlier
\* one (self._bindings as a dict keyed by the key)
add_binding_overwrite(key, act, description) ==
    /\ cls = "FzfCommandBuilder"
    /\ Len(_bindings) < MaxBindings
    /\ _bindings' =
           IF \E i \in 1..Len(_bindings) : _bindings[i].key = key
           THEN [i \in 1..Len(_bindings) |->
                    IF _bindings[i].key = key
                    THEN Binding(key, act, description) ELSE _bindings[i]]
           ELSE Append(_bindings, Binding(key, act, description))
    /\ UNCHANGED <<cls, config, _actions, args, command_string>>
    /\ UNCHANGED <<toggleVars, shellVars, hostVars>>

\* build_args merging the registered bindings into config.bindings before
\* emitting them
build_args_merging ==
    /\ cls = "FzfCommandBuilder"
    /\ config' = [config EXCEPT !.bindings =
                     @ \o [i \in 1..Len(_bindings) |->
                              <<_bindings[i].key, _bindings[i].action>>]]
    /\ args' = Result(Len(_bindings),
                      FzfCommandBuilder_build_args(config', <<>>))
    /\ UNCHANGED <<cls, _bindings, _actions, command_string>>
    /\ UNCHANGED <<toggleVars, shellVars, hostVars>>

\* FzfCommandBuilder.add_binding(key, action, description)
add_binding(key, act, description) ==
    /\ cls = "FzfCommandBuilder"
    /\ Len(_bindings) < MaxBindings
    /\ _bindings' = Append(_bindings, Binding(key, act, description))
    /\ UNCHANGED <<cls, config, _actions, args, command_string>>
    /\ UNCHANGED <<toggleVars, shellVars, hostVars>>

\* App.action(key, action, description)
action(key, act, description) ==
    /\ cls = "App"
    /\ Len(_actions) < MaxBindings
    /\ _actions' = Append(_actions, Binding(key, act, description))
    /\ UNCHANGED <<cls, config, _bindings, args, command_string>>
    /\ UNCHANGED <<toggleVars, shellVars, hostVars>>

\* a call of FzfCommandBuilder.build_args
build_args ==
    /\ cls = "FzfCommandBuilder"
    /\ args' = Result(Len(_bindings),
                      FzfCommandBuilder_build_args(config, _bindings))
    /\ UNCHANGED <<cls, config, _bindings, _actions, command_string>>
    /\ UNCHANGED <<toggleVars, shellVars, hostVars>>

\* a call of FzfCommandBuilder.build_command_string
build_command_string ==
    /\ cls = "FzfCommandBuilder"
    /\ command_string' =
           Result(Len(_bindings),
                  FzfCommandBuilder_build_command_string(config, _bindings))
    /\ UNCHANGED <<cls, config, _bindings, _actions, args>>
    /\ UNCHANGED <<toggleVars, shellVars, hostVars>>

\* a call of App.build_args
App_build ==
    /\ cls = "App"
    /\ args' = Result(Len(_actions), App_build_args(config, _actions))
    /\ UNCHANGED <<cls, config, _bindings, _actions, command_string>>
    /\ UNCHANGED <<toggleVars, shellVars, hostVars>>

\* a call of App.build_command_string
App_build_string ==
    /\ cls = "App"
    /\ command_string' =
           Result(Len(_actions), App_build_command_string(config, _actions))
    /\ UNCHANGED <<cls, config, _bindings, _actions, args>>
    /\ UNCHANGED <<toggleVars, shellVars, hostVars>>

Next ==
    \/ \E b \in Registrations : add_binding(b.key, b.action, b.description)
    \/ \E b \in Registrations : action(b.key, b.action, b.description)
    \/ build_args
    \/ build_command_string
    \/ App_build
    \/ App_build_string

Spec == Init /\ [][Next]_vars

----------------------------------------------------------------------------
(* What the claims read *)

\* the registrations of the builder in use, and its raw extra flags
Registered == IF cls = "App" THEN _actions ELSE _bindings
RawFlags == IF cls = "App" THEN config.fzf_options ELSE config.extra_args

\* the last build_args / build_command_string result was returned after the
\* latest registration
ArgsCurrent == args.at = Len(Registered)
StringCurrent == command_string.at = Len(Registered)

\* the tokens build_args emits itself: its result without the extra flags
OwnArgs == SubSeq(args.value, 1, Len(args.value) - Len(RawFlags))

Count(tok, a) == Cardinality({i \in 1..Len(a) : a[i] = tok})

\* token v directly follows flag f somewhere in a
HasPair(a, f, v) == \E i \in 1..(Len(a) - 1) : a[i] = f /\ a[i + 1] = v

\* the strings of the configuration that are values of flags
ConfiguredValues ==
    { config.shell, config.height, config.layout, config.prompt, config.info,
      config.delimiter, config.initial_query, config.preview_window,
      config.footer }
    \cup { o[1] : o \in {config.preview_command, config.history_file} \ {None} }

\* POSIX shell word splitting of a command line: blanks separate words,
\* '...' is literal, "..." is literal but for backslash escapes, and a
\* backslash outside quotes escapes the next character.
\* the first position from i on whose character is in stop; Len(s)+1 if none
NextOf(s, i, stop) ==
    IF \E j \in i..Len(s) : s[j] \in stop
    THEN CHOOSE j \in i..Len(s) :
             s[j] \in stop /\ \A k \in i..(j - 1) : s[k] \notin stop
    ELSE Len(s) + 1

RECURSIVE ShWord(_, _, _, _)
ShWord(s, i, quoting, word) ==
    LET stop == CASE quoting = "single" -> {"'"}
                  [] quoting = "double" -> {"\"", "\\"}
                  [] OTHER -> {" ", "'", "\"", "\\"}
        j == NextOf(s, i, stop)
        w == word \o SubSeq(s, i, j - 1)
    IN  IF j > Len(s) THEN [word |-> w, next |-> j]
        ELSE CASE quoting = "single" -> ShWord(s, j + 1, "plain", w)
               [] quoting = "double" ->
                    IF s[j] = "\"" THEN ShWord(s, j + 1, "plain", w)
                    ELSE IF j < Len(s) /\ s[j + 1] \in {"\"", "\\", "$"}
                    THEN ShWord(s, j + 2, "double", Append(w, s[j + 1]))
                    ELSE ShWord(s, j + 1, "double", Append(w, s[j]))
               [] OTHER ->
                    IF s[j] = " " THEN [word |-> w, next |-> j]
                    ELSE IF s[j] = "'" THEN ShWord(s, j + 1, "single", w)
                    ELSE IF s[j] = "\"" THEN ShWord(s, j + 1, "double", w)
                    ELSE IF j < Len(s)
                    THEN ShWord(s, j + 2, "plain", Append(w, s[j + 1]))
                    ELSE ShWord(s, j + 1, "plain", Append(w, s[j]))

RECURSIVE ShWords(_, _, _)
ShWords(s, i, words) ==
    IF i > Len(s) THEN words
    ELSE IF s[i] = " " THEN ShWords(s, i + 1, words)
    ELSE LET w == ShWord(s, i, "plain", <<>>)
         IN  ShWords(s, w.next + 1, Append(words, w.word))

ShSplit(s) == ShWords(s, 1, <<>>)

----------------------------------------------------------------------------
(* Claims about the argument builders *)

\* C1: build_args returns the tokens in the fixed order of the table: fzf,
\* --with-shell, --height, --layout, --prompt, --info, then --ansi,
\* --disabled, -d, --no-border each only when set, then --query, then
\* --preview/--preview-window, then --history, then --footer, then one
\* --bind per config.bindings entry in map order, then one --bind per
\* registered binding in registration order, then the extra flags.
C1_FixedOrder ==
    ArgsCurrent =>
        args.value = Flatten(OrderTable(config, Registered, RawFlags))

\* a result with every optional group: map bindings, two registrations and
\* extra flags
C1_Witness ==
    /\ ArgsCurrent
    /\ Len(Registered) = 2
    /\ config.bindings # <<>>
    /\ RawFlags # <<>>

\* C2 as claimed: for every configuration, extra flags included, the output
\* begins with fzf and holds exactly one --footer token, followed by the
\* configured footer.
C2_ExactlyOneFooterAlways ==
    ArgsCurrent =>
        /\ args.value[1] = FZF
        /\ Count(FOOTER, args.value) = 1
        /\ HasPair(args.value, FOOTER, config.footer)

\* C2 amended: the output begins with fzf; the builder emits one --footer
\* flag, directly before the bindings, whose value is the configured footer
\* (the empty string when unset); and that flag is the only --footer token of
\* the output whenever no extra flag and no configured value is itself the
\* string --footer.
C2_BuilderEmitsOneFooter ==
    ArgsCurrent =>
        LET own == OwnArgs
            n == Len(own) - 2 * (Len(config.bindings) + Len(Registered))
        IN  /\ args.value[1] = FZF
            /\ n >= 2
            /\ own[n - 1] = FOOTER
            /\ own[n] = config.footer
            /\ (/\ FOOTER \notin ConfiguredValues
                /\ \A i \in 1..Len(RawFlags) : RawFlags[i] # FOOTER)
               => Count(FOOTER, args.value) = 1

\* an unset footer, with registered bindings and extra flags after it
C2_Witness ==
    /\ ArgsCurrent
    /\ config.footer = <<>>
    /\ Len(Registered) > 0
    /\ RawFlags # <<>>
    /\ \A i \in 1..Len(RawFlags) : RawFlags[i] # FOOTER

\* C3: with no preview command (None or empty) build_args emits neither
\* --preview nor --preview-window, whatever preview_window holds; with a
\* preview command it emits both together, --preview and the command first,
\* then --preview-window and the window.
C3_PreviewOnlyWhenConfigured ==
    ArgsCurrent =>
        LET own == OwnArgs IN
        IF config.preview_command = None \/ config.preview_command = Some(<<>>)
        THEN Count(PREVIEW, own) = 0 /\ Count(PREVIEW_WINDOW, own) = 0
        ELSE /\ Count(PREVIEW, own) = 1
             /\ Count(PREVIEW_WINDOW, own) = 1
             /\ \E i \in 1..(Len(own) - 3) :
                    /\ own[i] = PREVIEW
                    /\ own[i + 1] = config.preview_command[1]
                    /\ own[i + 2] = PREVIEW_WINDOW
                    /\ own[i + 3] = config.preview_window

\* an empty (not None) preview command with a non-empty preview_window
C3_Witness ==
    /\ ArgsCurrent
    /\ config.preview_command = Some(<<>>)
    /\ config.preview_window # <<>>

\* C4: registrations never overwrite one another. Every registration call
\* appends one binding and leaves the earlier ones in place, and build_args
\* emits one --bind per config.bindings entry followed by one --bind per
\* registration, same keys included.
C4_BindingsAccumulate ==
    /\ [][Registered' # Registered =>
            /\ Len(Registered') = Len(Registered) + 1
            /\ SubSeq(Registered', 1, Len(Registered)) = Registered]_vars
    /\ [](ArgsCurrent =>
            LET own == OwnArgs
                nm == Len(config.bindings)
                nr == Len(Registered)
                base == Len(own) - 2 * (nm + nr)
            IN  /\ base >= 1
                /\ \A i \in 1..nm :
                      /\ own[base + 2 * i - 1] = BIND
                      /\ own[base + 2 * i] =
                             config.bindings[i][1] \o <<":">> \o config.bindings[i][2]
                /\ \A j \in 1..nr :
                      /\ own[base + 2 * (nm + j) - 1] = BIND
                      /\ own[base + 2 * (nm + j)] =
                             Registered[j].key \o <<":">> \o Registered[j].action)

\* two registrations for one key, which config.bindings binds as well
C4_Witness ==
    /\ ArgsCurrent
    /\ Len(Registered) = 2
    /\ Registered[1].key = Registered[2].key
    /\ Registered[1].action # Registered[2].action
    /\ \E i \in 1..Len(config.bindings) : config.bindings[i][1] = Registered[1].key

\* C5: build_command_string is the argument list of build_args with every
\* token quoted and joined by blanks: splitting it the way the shell does
\* gives back the list of build_args, token for token.
C5_CommandStringReparses ==
    StringCurrent =>
        ShSplit(command_string.value) =
            (IF cls = "App" THEN App_build_args(config, _actions)
             ELSE FzfCommandBuilder_build_args(config, _bindings))

\* an empty footer value, a token with blanks and a token with quotes
C5_Witness ==
    /\ StringCurrent
    /\ config.footer = <<>>
    /\ config.shell = S_space
    /\ \E i \in 1..Len(Registered) : Registered[i].action = S_quote

\* C6: the build operations are pure. No step changes the configuration; a
\* step that returns a result changes no registration; and two results of
\* the same operation with no registration between them are equal.
C6_BuildIsPure ==
    [][/\ config' = config
       /\ (args' # args \/ command_string' # command_string)
              => Registered' = Registered
       /\ (args.at >= 0 /\ args'.at = args.at) => args'.value = args.value
       /\ (command_string.at >= 0 /\ command_string'.at = command_string.at)
              => command_string'.value = command_string.value]_vars

\* both operations have run after a registration
C6_Witness ==
    /\ Len(Registered) > 0
    /\ ArgsCurrent
    /\ StringCurrent

\* every string the builder was given: the string fields of the
\* configuration, the keys and actions of the bindings, the extra flags
SuppliedStrings ==
    ConfiguredValues
    \cup { config.bindings[i][1] : i \in 1..Len(config.bindings) }
    \cup { config.bindings[i][2] : i \in 1..Len(config.bindings) }
    \cup { Registered[j].key : j \in 1..Len(Registered) }
    \cup { Registered[j].action : j \in 1..Len(Registered) }
    \cup { RawFlags[i] : i \in 1..Len(RawFlags) }

----------------------------------------------------------------------------
(* The pinned/inline mode toggle (scripts/rgi-toggle-pinned)               *)

RG ==
    <<"r", "g">>
SMART_CASE ==
    <<"-", "-", "s", "m", "a", "r", "t", "-", "c", "a", "s", "e">>
HIDDEN ==
    <<"-", "-", "h", "i", "d", "d", "e", "n">>
DASH_G ==
    <<"-", "g">>
DASH_T ==
    <<"-", "t">>
GLOB_PY ==
    <<"'", "*", ".", "p", "y", "'">>
DASH_I ==
    <<"-", "i">>
PAT_test ==
    <<"t", "e", "s", "t">>
PAT_TODO ==
    <<"T", "O", "D", "O">>
PATH_dot ==
    <<".">>
PATH_src ==
    <<"s", "r", "c", "/">>

\* the short options whose value is the next token
ValueOptions == {DASH_G, DASH_T}

\* the blank-separated tokens of s
RECURSIVE word_at(_, _, _)
word_at(s, i, w) ==
    IF i > Len(s) \/ s[i] = " " THEN [word |-> w, next |-> i]
    ELSE word_at(s, i + 1, Append(w, s[i]))

RECURSIVE split_from(_, _, _)
split_from(s, i, words) ==
    IF i > Len(s) THEN words
    ELSE IF s[i] = " " THEN split_from(s, i + 1, words)
    ELSE LET w == word_at(s, i, <<>>)
         IN  split_from(s, w.next + 1, Append(words, w.word))

split(s) == split_from(s, 1, <<>>)

IsOption(tok) == tok # <<>> /\ tok[1] = "-"

\* the end of the command token: the position of the first blank of s
CommandEnd(s) ==
    IF \E i \in 1..Len(s) : s[i] = " "
    THEN CHOOSE i \in 1..Len(s) : s[i] = " " /\ \A j \in 1..(i - 1) : s[j] # " "
    ELSE Len(s) + 1

\* the tokens of toks at the positions of S that are >= i, in order
RECURSIVE Select(_, _, _)
Select(toks, S, i) ==
    IF i > Len(toks) THEN <<>>
    ELSE (IF i \in S THEN <<toks[i]>> ELSE <<>>) \o Select(toks, S, i + 1)

\* inject with the header's flags put at the end of the query
inject_appending(h, q) ==
    IF h = <<>> THEN << <<>>, q >> ELSE << <<>>, q \o <<" ">> \o h >>

\* inject that leaves the flags in the header as well
inject_keeping_header(h, q) ==
    IF h = <<>> THEN << <<>>, q >>
    ELSE LET n == CommandEnd(q)
         IN  << h, SubSeq(q, 1, n - 1) \o <<" ">> \o h \o SubSeq(q, n, Len(q)) >>

\* inject_to_inline(header, query) -> (new_header, new_query)
inject_to_inline(h, q) ==
    IF h = <<>> THEN << <<>>, q >>
    ELSE LET n == CommandEnd(q)
         IN  << <<>>,
                SubSeq(q, 1, n - 1) \o <<" ">> \o h \o SubSeq(q, n, Len(q)) >>

\* the scan of eject_to_pinned: option tokens, and the value token after a
\* value-taking short option, go to flags; every other token is kept
RECURSIVE eject_scan(_, _, _, _)
eject_scan(toks, i, flags, kept) ==
    IF i > Len(toks) THEN <<flags, kept>>
    ELSE IF i > 1 /\ IsOption(toks[i])
    THEN IF toks[i] \in ValueOptions /\ i < Len(toks)
         THEN eject_scan(toks, i + 2, flags \o <<toks[i], toks[i + 1]>>, kept)
         ELSE eject_scan(toks, i + 1, Append(flags, toks[i]), kept)
    ELSE eject_scan(toks, i + 1, flags, Append(kept, toks[i]))

\* eject moving the option tokens only, a value token staying in the query
eject_options_only(q) ==
    LET toks == split(q)
        opt == {i \in 2..Len(toks) : IsOption(toks[i])}
    IN  << join(Select(toks, opt, 1)), join(Select(toks, (1..Len(toks)) \ opt, 1)) >>

\* eject returning the flags last to first
eject_reversing(q) ==
    LET r == eject_scan(split(q), 1, <<>>, <<>>)
        f == r[1]
    IN  << join([i \in 1..Len(f) |-> f[Len(f) + 1 - i]]), join(r[2]) >>

\* eject_to_pinned(query) -> (new_header, new_query)
eject_to_pinned(q) ==
    LET r == eject_scan(split(q), 1, <<>>, <<>>)
    IN  << join(r[1]), join(r[2]) >>

----------------------------------------------------------------------------
(* Inputs of the toggle: headers of pinned options and command-mode queries *)

\* at most this many option units in a header or typed into a query
MaxUnits == 2

\* at most this many mode switches in one session
MaxToggles == 4

\* an option unit is an option, or a value-taking option with its value
Units == { <<SMART_CASE>>, <<HIDDEN>>, <<DASH_G, GLOB_PY>> }

\* the sequences of at most n distinct units
RECURSIVE UnitSeqs(_)
UnitSeqs(n) ==
    IF n = 0 THEN { <<>> }
    ELSE UnitSeqs(n - 1)
         \cup { Append(us, u) : us \in { x \in UnitSeqs(n - 1) : Len(x) = n - 1 },
                                u \in Units }

RECURSIVE Concat(_)
Concat(seqs) == IF seqs = <<>> THEN <<>> ELSE Head(seqs) \o Concat(Tail(seqs))

FlagLists ==
    { Concat(us) : us \in { x \in UnitSeqs(MaxUnits) :
                              \A i, j \in 1..Len(x) : i # j => x[i] # x[j] } }

\* the pinned options of a header: flags joined by single blanks
Headers == { join(f) : f \in FlagLists }

\* rg [options typed by the user] PATTERN PATH
PlainQueries ==
    { join(<<RG, pat, path>>) : pat \in {PAT_test, PAT_TODO},
                                path \in {PATH_dot, PATH_src} }
OptionQueries ==
    { join(<<RG, DASH_I, pat, path>>) : pat \in {PAT_test, PAT_TODO},
                                        path \in {PATH_dot, PATH_src} }
InlineQueries ==
    { join(<<RG>> \o f \o <<pat, path>>) : f \in FlagLists,
                                          pat \in {PAT_test, PAT_TODO},
                                          path \in {PATH_dot, PATH_src} }

\* no builder in use: the builder's variables at rest
BuilderIdle ==
    /\ cls = "FzfCommandBuilder"
    /\ config = FzfConfig
    /\ _bindings = <<>>
    /\ _actions = <<>>
    /\ args = NoResult
    /\ command_string = NoResult

\* a session starts pinned (header from the config file) or inline
ToggleInit ==
    /\ BuilderIdle
    /\ ShellIdle
    /\ HostIdle
    /\ mode \in {"pinned", "inline"}
    /\ header \in (IF mode = "pinned" THEN Headers ELSE { <<>> })
    /\ query \in (IF mode = "pinned" THEN PlainQueries \cup OptionQueries
                  ELSE InlineQueries)
    /\ prev = << <<>>, <<>> >>
    /\ toggles = 0

\* ctrl-] in pinned mode: the header is injected into the query
toggle_to_inline ==
    /\ mode = "pinned"
    /\ toggles < MaxToggles
    /\ LET r == inject_to_inline(header, query)
       IN  header' = r[1] /\ query' = r[2]
    /\ mode' = "inline"
    /\ prev' = <<header, query>>
    /\ toggles' = toggles + 1
    /\ UNCHANGED <<builderVars, shellVars, hostVars>>

\* ctrl-] in inline mode: the options are ejected from the query
toggle_to_pinned ==
    /\ mode = "inline"
    /\ toggles < MaxToggles
    /\ LET r == eject_to_pinned(query)
       IN  header' = r[1] /\ query' = r[2]
    /\ mode' = "pinned"
    /\ prev' = <<header, query>>
    /\ toggles' = toggles + 1
    /\ UNCHANGED <<builderVars, shellVars, hostVars>>

ToggleNext == toggle_to_inline \/ toggle_to_pinned

SpecToggle == ToggleInit /\ [][ToggleNext]_vars

----------------------------------------------------------------------------
(* Claims about the mode toggle *)

\* the last switch was an inject (pinned -> inline) / an eject
Injected == toggles >= 1 /\ mode = "inline"
Ejected == toggles >= 1 /\ mode = "pinned"

HasOption(q) == \E i \in 2..Len(split(q)) : IsOption(split(q)[i])

C9_InjectSplices ==
    Injected =>
        LET h == prev[1]
            q == prev[2]
            toks == split(query)
        IN  /\ header = <<>>
            /\ toks = <<RG>> \o split(h) \o Tail(split(q))
            /\ \A i \in 1..Len(split(h)) : Count(split(h)[i], toks) = 1
            /\ SubSeq(query, 1, 2) = RG
            /\ SubSeq(query, Len(query) - (Len(q) - 2) + 1, Len(query))
                   = SubSeq(q, 3, Len(q))

\* header "--smart-case --hidden" injected into "rg test ."
C9_Witness ==
    /\ Injected
    /\ prev = << join(<<SMART_CASE, HIDDEN>>), join(<<RG, PAT_test, PATH_dot>>) >>
    /\ query = join(<<RG, SMART_CASE, HIDDEN, PAT_test, PATH_dot>>)

\* C10: eject_to_pinned moves every option token of the query, and the value
\* token that follows a value-taking short option, into the header, in
\* order; none of them stays in the query, whose command, pattern and path
\* tokens keep their order.
C10_EjectMovesOptionUnits ==
    Ejected =>
        LET toks == split(prev[2])
            moved == {i \in 2..Len(toks) :
                        \/ IsOption(toks[i])
                        \/ (i > 2 /\ toks[i - 1] \in ValueOptions)}
        IN  /\ split(header) = Select(toks, moved, 1)
            /\ split(query) = Select(toks, (1..Len(toks)) \ moved, 1)
            /\ header = join(split(header))
            /\ query = join(split(query))
            /\ \A i \in 1..Len(split(query)) :
                  ~IsOption(split(query)[i]) /\ split(query)[i] # GLOB_PY

\* "rg --smart-case -g '*.py' test src/" ejected
C10_Witness ==
    /\ Ejected
    /\ prev[2] = join(<<RG, SMART_CASE, DASH_G, GLOB_PY, PAT_test, PATH_src>>)
    /\ header = join(<<SMART_CASE, DASH_G, GLOB_PY>>)
    /\ query = join(<<RG, PAT_test, PATH_src>>)

\* the tokens of a header and a query together, and the flags among them
TokensOf(h, q) == split(h) \o split(q)
FlagsOf(h, q) ==
    LET toks == TokensOf(h, q)
    IN  {toks[i] : i \in {j \in 1..Len(toks) : IsOption(toks[j])}}

\* C11: in every state of a session of mode switches that starts from a
\* header and a query in which no flag is repeated, each flag token occurs
\* exactly once in the header and the query together, and the last switch
\* neither added nor lost a flag.
C11_NoFlagDuplicated ==
    LET toks == TokensOf(header, query)
    IN  /\ \A i \in 1..Len(toks) : IsOption(toks[i]) => Count(toks[i], toks) = 1
        /\ toggles >= 1 => FlagsOf(header, query) = FlagsOf(prev[1], prev[2])

\* two round trips pinned -> inline -> pinned from "--smart-case --hidden"
\* and "rg -i test ."
C11_Witness ==
    /\ toggles = 4
    /\ mode = "pinned"
    /\ header = join(<<SMART_CASE, HIDDEN, DASH_I>>)
    /\ query = join(<<RG, PAT_test, PATH_dot>>)

----------------------------------------------------------------------------
(* The shell snippet templates (rgi/shell_scripts.py)                      *)

IMPLICIT_OPTS ==
    <<"-", "-", "j", "s", "o", "n">>
DELTA ==
    <<"d", "e", "l", "t", "a">>
PINNED ==
    <<"p", "i", "n", "n", "e", "d">>
RELOAD_PREFIX ==
    <<"r", "e", "l", "o", "a", "d", ":">>
ENV_ASSIGN ==
    <<"R", "I", "P", "G", "R", "E", "P", "_", "C", "O", "N", "F", "I", "G", "_", "P", "A", "T", "H", "=">>
EVAL ==
    <<"e", "v", "a", "l">>
STDERR_NULL ==
    <<"2", ">", "/", "d", "e", "v", "/", "n", "u", "l", "l">>
PIPE ==
    <<"|">>

\* whitespace of the [[:space:]] class that a one-line query can hold
Space == {" ", "\t"}

StartsWith(s, p) == Len(p) <= Len(s) /\ SubSeq(s, 1, Len(p)) = p

\* the positions of character c in s
Positions(s, c) == {i \in 1..Len(s) : s[i] = c}
First(S) == CHOOSE i \in S : \A j \in S : i <= j
Last(S) == CHOOSE i \in S : \A j \in S : j <= i

\* ${s##* }: s without its longest prefix ending in a blank
AfterLastBlank(s) ==
    IF Positions(s, " ") = {} THEN s
    ELSE SubSeq(s, Last(Positions(s, " ")) + 1, Len(s))

\* ${s% *}: s without its shortest suffix starting with a blank
BeforeLastBlank(s) ==
    IF Positions(s, " ") = {} THEN s
    ELSE SubSeq(s, 1, Last(Positions(s, " ")) - 1)

\* ${s%%|*}: s without its longest suffix starting with a bar
BeforeFirstBar(s) ==
    IF Positions(s, "|") = {} THEN s
    ELSE SubSeq(s, 1, First(Positions(s, "|")) - 1)

\* ${s#*|}: s without its shortest prefix ending in a bar
AfterFirstBar(s) ==
    IF Positions(s, "|") = {} THEN s
    ELSE SubSeq(s, First(Positions(s, "|")) + 1, Len(s))

\* shell pattern matching of s[j..] against pat[i..]: * and ? are the
\* wildcards; in a pathname neither matches a slash or a leading dot
RECURSIVE fnmatch(_, _, _, _, _)
fnmatch(pat, s, i, j, pathname) ==
    LET wild == /\ j <= Len(s)
                /\ ~(pathname /\ s[j] = "/")
                /\ ~(pathname /\ s[j] = "." /\ (j = 1 \/ s[j - 1] = "/"))
    IN  IF i > Len(pat) THEN j > Len(s)
        ELSE IF pat[i] = "*"
        THEN \/ fnmatch(pat, s, i + 1, j, pathname)
             \/ (wild /\ fnmatch(pat, s, i, j + 1, pathname))
        ELSE IF pat[i] = "?"
        THEN wild /\ fnmatch(pat, s, i + 1, j + 1, pathname)
        ELSE j <= Len(s) /\ pat[i] = s[j] /\ fnmatch(pat, s, i + 1, j + 1, pathname)

\* the order of strings in a sorted glob result
Collation ==
    <<"'", "*", "-", ".", "/", "0", "1", "2", "3", "4", "5", "6", "7", "8",
      "9", "_", "a", "b", "c", "d", "e", "f", "g", "h", "i", "j", "k", "l",
      "m", "n", "o", "p", "q", "r", "s", "t", "u", "v", "w", "x", "y", "z">>
Rank(c) == First(Positions(Collation, c))
Before(a, b) ==
    LET d == {i \in 1..Len(a) : i <= Len(b) /\ a[i] # b[i]}
    IN  IF d = {} THEN Len(a) <= Len(b)
        ELSE Rank(a[First(d)]) < Rank(b[First(d)])

RECURSIVE sorted(_)
sorted(S) ==
    IF S = {} THEN <<>>
    ELSE LET m == CHOOSE x \in S : \A y \in S : Before(x, y)
         IN  <<m>> \o sorted(S \ {m})

\* [[ -e p ]] and [[ -d p ]] in the working directory
exists(p) ==
    \/ p \in files.names
    \/ p = <<".">>
    \/ (p # <<>> /\ p[Len(p)] = "/" /\ SubSeq(p, 1, Len(p) - 1) \in files.dirs)
is_directory(p) ==
    \/ p \in files.dirs
    \/ p = <<".">>
    \/ (p # <<>> /\ p[Len(p)] = "/" /\ SubSeq(p, 1, Len(p) - 1) \in files.dirs)

\* matches=( ${last}* ) under nullglob: the paths matching the pattern, sorted
glob(pattern) == sorted({p \in files.names : fnmatch(pattern, p, 1, 1, TRUE)})

\* basename of a path without a trailing slash
basename(p) ==
    IF Positions(p, "/") = {} THEN p
    ELSE SubSeq(p, Last(Positions(p, "/")) + 1, Len(p))

\* compgen -f -- last: the entries whose path starts with last, in the
\* directory last names; the entries . and .. are among them
compgen_f(last) ==
    {p \in files.names \cup {<<".">>, <<".", ".">>} :
        /\ StartsWith(p, last)
        /\ \A i \in (Len(last) + 1)..Len(p) : p[i] # "/"}

\* grep -oE "'![^']*'" | sed "s/^'!//;s/'$//" on s from position i: the
\* texts between '! and the next quote, left to right
RECURSIVE exclusion_patterns(_, _)
exclusion_patterns(s, i) ==
    LET starts == {j \in i..(Len(s) - 2) :
                      /\ s[j] = "'" /\ s[j + 1] = "!"
                      /\ \E k \in (j + 2)..Len(s) : s[k] = "'"}
    IN  IF starts = {} THEN <<>>
        ELSE LET j == First(starts)
                 k == NextOf(s, j + 2, {"'"})
             IN  <<SubSeq(s, j + 2, k - 1)>> \o exclusion_patterns(s, k + 1)

\* the while-read loop: some non-empty pattern matches the base name of m
excluded(m, all_opts) ==
    LET patterns == exclusion_patterns(all_opts, 1)
    IN  \E n \in 1..Len(patterns) :
            /\ patterns[n] # <<>>
            /\ fnmatch(patterns[n], basename(m), 1, 1, FALSE)

\* the for loop: the matches that are not excluded, in order
filtered(matches, all_opts) ==
    Select(matches, {n \in 1..Len(matches) : ~excluded(matches[n], all_opts)}, 1)

\* all_opts with the pinned options left out
all_opts_query_only(pinned_opts, cmd) == cmd

\* all_opts="$pinned_opts $cmd"
all_opts(pinned_opts, cmd) == pinned_opts \o <<" ">> \o cmd

\* the substitution made even for an empty list of matches
substitute_always(cmd, matches) ==
    BeforeLastBlank(cmd) \o <<" ">> \o join(matches)

\* lines 62-64: cmd="${cmd% *} ${matches[*]}" for a non-empty list
substitute(cmd, matches) ==
    IF Len(matches) > 0
    THEN BeforeLastBlank(cmd) \o <<" ">> \o join(matches)
    ELSE cmd

\* GLOB_EXPAND expanding a last word that names an existing path as well
GLOB_EXPAND_existing_expanded(pinned_opts, cmd) ==
    IF cmd # <<>> /\ cmd[Len(cmd)] \in Space THEN cmd
    ELSE LET last == AfterLastBlank(cmd)
             found == glob(last \o <<"*">>)
             opts == all_opts(pinned_opts, cmd)
         IN  IF StartsWith(last, <<"-">>) \/ last = <<>> \/ Len(found) = 0
             THEN cmd
             ELSE substitute(cmd, IF exclusion_patterns(opts, 1) # <<>>
                                  THEN filtered(found, opts) ELSE found)

\* GLOB_EXPAND: the value of cmd after the fragment
GLOB_EXPAND(pinned_opts, cmd) ==
    IF cmd # <<>> /\ cmd[Len(cmd)] \in Space THEN cmd
    ELSE LET last == AfterLastBlank(cmd)
         IN  IF ~(~StartsWith(last, <<"-">>) /\ ~exists(last) /\ last # <<>>)
             THEN cmd
             ELSE LET found == glob(last \o <<"*">>)
                      opts == all_opts(pinned_opts, cmd)
                  IN  IF Len(found) > 0
                      THEN substitute(cmd, IF exclusion_patterns(opts, 1) # <<>>
                                           THEN filtered(found, opts)
                                           ELSE found)
                      ELSE cmd

\* $(cat file): the content without its trailing newlines
RECURSIVE cat(_)
cat(content) ==
    IF content # <<>> /\ content[Len(content)] = "\n"
    THEN cat(SubSeq(content, 1, Len(content) - 1))
    ELSE content

\* pinned_opts taken after the last bar of the state
read_pinned_opts_after_last_bar(file) ==
    IF file = None THEN <<>>
    ELSE LET state == cat(file[1])
         IN  IF BeforeFirstBar(state) = PINNED
             THEN SubSeq(state, Last(Positions(state, "|") \cup {0}) + 1,
                         Len(state))
             ELSE <<>>

\* lines 74-81 of the transform: pinned_opts read from the state file
read_pinned_opts(file) ==
    IF file = None THEN <<>>
    ELSE LET state == cat(file[1])
         IN  IF BeforeFirstBar(state) = PINNED THEN AfterFirstBar(state) ELSE <<>>

\* printf %q of a word without control characters: each character the
\* shell treats specially gets a backslash; the empty word is ''
ShellSpecial ==
    {" ", "!", "\"", "$", "&", "'", "(", ")", "*", ",", ";", "<", ">", "?",
     "[", "\\", "]", "^", "{", "|", "}"}
printf_q(word) ==
    IF word = <<>> THEN <<"'", "'">>
    ELSE Concat([i \in 1..Len(word) |->
                    IF \/ word[i] \in ShellSpecial
                       \/ (i = 1 /\ word[i] \in {"#", "~"})
                    THEN <<"\\", word[i]>> ELSE <<word[i]>>])

\* RIPGREP_CONFIG_PATH= eval "$cmd" 2>/dev/null | delta
Pipeline(cmd, delta) ==
    [env |-> ENV_ASSIGN, eval |-> cmd, stderr |-> STDERR_NULL, pipe |-> delta]

\* oneline() on template text that stands between two non-blank
\* characters: every run of whitespace becomes one blank
RECURSIVE collapse(_, _)
collapse(s, i) ==
    IF i > Len(s) THEN <<>>
    ELSE LET white == s[i] \in Space \cup {"\n"}
             same == {j \in i..Len(s) :
                        \A k \in i..j : (s[k] \in Space \cup {"\n"}) = white}
             j == Last(same)
         IN  (IF white THEN <<" ">> ELSE SubSeq(s, i, j)) \o collapse(s, j + 1)

\* the rebuilt command with the implicit options after the rest of the
\* query
reload_command_implicit_last(file, q, implicit_opts) ==
    LET pinned_opts == read_pinned_opts(file)
        cmd == GLOB_EXPAND(pinned_opts, q)
    IN  IF StartsWith(cmd, RG)
        THEN RG \o (IF pinned_opts # <<>> THEN <<" ">> \o pinned_opts ELSE <<>>)
                \o SubSeq(cmd, 3, Len(cmd))
                \o collapse(<<" ">> \o implicit_opts, 1)
        ELSE cmd

\* the rebuilt command with the implicit options before the pinned ones
reload_command_implicit_first(file, q, implicit_opts) ==
    LET pinned_opts == read_pinned_opts(file)
        cmd == GLOB_EXPAND(pinned_opts, q)
    IN  IF StartsWith(cmd, RG)
        THEN collapse(RG \o <<" ">> \o implicit_opts, 1)
                \o (IF pinned_opts # <<>> THEN <<" ">> \o pinned_opts ELSE <<>>)
                \o SubSeq(cmd, 3, Len(cmd))
        ELSE cmd

\* lines 73-91 of RELOAD_TRANSFORM, built with implicit_opts: the value of
\* cmd rebuilt for a state file and a query
reload_command(file, q, implicit_opts) ==
    LET pinned_opts == read_pinned_opts(file)
        cmd == GLOB_EXPAND(pinned_opts, q)
    IN  IF StartsWith(cmd, RG)
        THEN LET rest == SubSeq(cmd, 3, Len(cmd))
             IN  IF pinned_opts # <<>>
                 THEN RG \o <<" ">> \o pinned_opts
                         \o collapse(<<" ">> \o implicit_opts, 1) \o rest
                 ELSE collapse(RG \o <<" ">> \o implicit_opts, 1) \o rest
        ELSE cmd

\* the action printed without the assignment that empties
\* RIPGREP_CONFIG_PATH
RELOAD_TRANSFORM_config_read(file, q, implicit_opts, delta) ==
    RELOAD_PREFIX \o EVAL \o <<" ">>
       \o printf_q(reload_command(file, q, implicit_opts))
       \o <<" ">> \o STDERR_NULL \o <<" ">> \o PIPE
       \o collapse(<<" ">> \o delta, 1)

\* RELOAD_TRANSFORM, built with implicit_opts and delta: the action printed
\* for a state file and a query
RELOAD_TRANSFORM(file, q, implicit_opts, delta) ==
    RELOAD_PREFIX \o ENV_ASSIGN \o <<" ">> \o EVAL \o <<" ">>
       \o printf_q(reload_command(file, q, implicit_opts))
       \o <<" ">> \o STDERR_NULL \o <<" ">> \o PIPE
       \o collapse(<<" ">> \o delta, 1)

\* START_RELOAD_PINNED taking the pinned options from the state file
START_RELOAD_PINNED_state_read(config_args, q, implicit_opts, delta) ==
    Pipeline(reload_command(state_file, q, implicit_opts), collapse(delta, 1))

\* START_RELOAD_PINNED, built with config_args, implicit_opts and delta:
\* the pipeline run for the query q
START_RELOAD_PINNED(config_args, q, implicit_opts, delta) ==
    LET cmd == GLOB_EXPAND(collapse(config_args, 1), q)
    IN  Pipeline(IF StartsWith(cmd, RG)
                 THEN collapse(RG \o <<" ">> \o config_args \o <<" ">>
                                  \o implicit_opts, 1)
                         \o SubSeq(cmd, 3, Len(cmd))
                 ELSE cmd,
                 collapse(delta, 1))

\* START_RELOAD_INLINE, built with implicit_opts and delta: the pipeline
\* run for the query q
START_RELOAD_INLINE(q, implicit_opts, delta) ==
    LET cmd == GLOB_EXPAND(<<>>, q)
    IN  Pipeline(IF StartsWith(cmd, RG)
                 THEN collapse(RG \o <<" ">> \o implicit_opts, 1)
                         \o SubSeq(cmd, 3, Len(cmd))
                 ELSE cmd,
                 collapse(delta, 1))

\* the while loop of TAB_COMPLETE: pfx shortened until m starts with it
RECURSIVE shorten(_, _)
shorten(pfx, m) ==
    IF SubSeq(m, 1, IF Len(pfx) < Len(m) THEN Len(pfx) ELSE Len(m)) # pfx
       /\ pfx # <<>>
    THEN shorten(SubSeq(pfx, 1, Len(pfx) - 1), m)
    ELSE pfx

\* the for loop of TAB_COMPLETE over matches[n..]
RECURSIVE common_prefix(_, _, _)
common_prefix(pfx, matches, n) ==
    IF n > Len(matches) THEN pfx
    ELSE common_prefix(shorten(pfx, matches[n]), matches, n + 1)

\* TAB_COMPLETE adding the single match after the query
TAB_COMPLETE_appending(q, matches) ==
    LET last == AfterLastBlank(q)
    IN  IF StartsWith(last, <<"-">>) \/ last = <<>> THEN q
        ELSE IF Len(matches) = 1
        THEN q \o <<" ">> \o matches[1]
        ELSE IF Len(matches) > 1
        THEN LET pfx == common_prefix(matches[1], matches, 1)
             IN  IF pfx # last THEN BeforeLastBlank(q) \o <<" ">> \o pfx ELSE q
        ELSE q

\* TAB_COMPLETE replacing the last word by nothing when nothing matches
TAB_COMPLETE_emptied(q, matches) ==
    LET last == AfterLastBlank(q)
    IN  IF StartsWith(last, <<"-">>) \/ last = <<>> THEN q
        ELSE IF Len(matches) = 0 THEN BeforeLastBlank(q) \o <<" ">>
        ELSE IF Len(matches) = 1
        THEN BeforeLastBlank(q) \o <<" ">> \o matches[1]
        ELSE q

\* TAB_COMPLETE: the line echoed for the query q, compgen having listed
\* matches for its last word
TAB_COMPLETE(q, matches) ==
    LET last == AfterLastBlank(q)
    IN  IF StartsWith(last, <<"-">>) \/ last = <<>> THEN q
        ELSE IF Len(matches) = 1
        THEN LET m == IF is_directory(matches[1])
                      THEN Append(matches[1], "/") ELSE matches[1]
             IN  BeforeLastBlank(q) \o <<" ">> \o m
        ELSE IF Len(matches) > 1
        THEN LET pfx == common_prefix(matches[1], matches, 1)
             IN  IF pfx # last THEN BeforeLastBlank(q) \o <<" ">> \o pfx ELSE q
        ELSE q

----------------------------------------------------------------------------
(* Inputs of the snippets: directories, state files and query lines *)

CODE_PY ==
    <<"c", "o", "d", "e", ".", "p", "y">>
CODE_TEST ==
    <<"c", "o", "d", "e", ".", "t", "e", "s", "t">>
NOTES_TXT ==
    <<"n", "o", "t", "e", "s", ".", "t", "x", "t">>
SRC ==
    <<"s", "r", "c">>
SRC_MAIN_PY ==
    <<"s", "r", "c", "/", "m", "a", "i", "n", ".", "p", "y">>
SRC_MAIN_TEST ==
    <<"s", "r", "c", "/", "m", "a", "i", "n", ".", "t", "e", "s", "t">>
RGI ==
    <<"r", "g", "i">>
RGI_CLI_PY ==
    <<"r", "g", "i", "/", "c", "l", "i", ".", "p", "y">>
EXCL_TEST ==
    <<"'", "!", "*", ".", "t", "e", "s", "t", "'">>
EXCL_PY ==
    <<"'", "!", "*", ".", "p", "y", "'">>
LAST_co ==
    <<"c", "o">>
LAST_code_t ==
    <<"c", "o", "d", "e", ".", "t">>
LAST_code_dot ==
    <<"c", "o", "d", "e", ".">>
LAST_sr ==
    <<"s", "r">>
LAST_src_ma ==
    <<"s", "r", "c", "/", "m", "a">>
LAST_n ==
    <<"n">>
LAST_zz ==
    <<"z", "z">>
LAST_dash ==
    <<"-", "c", "o">>
DASH_COVER ==
    <<"-", "c", "o", "v", "e", "r">>
DASH_E ==
    <<"-", "e">>
ALTERNATION ==
    <<"'", "a", "|", "b", "'">>
INLINE ==
    <<"i", "n", "l", "i", "n", "e">>
BOGUS ==
    <<"b", "o", "g", "u", "s">>

\* at most this many query changes in one session
MaxQueryChanges == 2

\* the working directories: a project with sources, and one holding the
\* package directory rgi, a file named co and a file whose name starts
\* with a dash
FileSystems ==
    { [names |-> {CODE_PY, CODE_TEST, NOTES_TXT, SRC, SRC_MAIN_PY, SRC_MAIN_TEST},
       dirs |-> {SRC}],
      [names |-> {DASH_COVER, LAST_co, CODE_TEST, RGI, RGI_CLI_PY},
       dirs |-> {RGI}] }

\* the mode-state file: absent, or with one of these contents
StateFiles ==
    { None,
      Some(<<>>),
      Some(PINNED),
      Some(INLINE \o <<"|">>),
      Some(INLINE \o <<"|">> \o HIDDEN),
      Some(BOGUS \o <<"|">> \o HIDDEN),
      Some(PINNED \o <<"|">>),
      Some(PINNED \o <<"|">> \o HIDDEN),
      Some(PINNED \o <<"|">> \o HIDDEN \o <<"\n">>),
      Some(PINNED \o <<"|">> \o join(<<DASH_G, EXCL_TEST>>)),
      Some(PINNED \o <<"|">> \o join(<<DASH_E, ALTERNATION>>)),
      Some(INLINE \o <<"|">> \o join(<<DASH_E, ALTERNATION>>)),
      Some(INLINE \o <<"|">> \o join(<<DASH_G, EXCL_TEST>>)) }

\* the config flags the pinned start script is built with
ConfigArgs ==
    { <<>>, HIDDEN, join(<<DASH_G, EXCL_TEST>>),
      HIDDEN \o <<" ", " ">> \o DASH_I }

\* the query lines
Queries ==
    { <<>>, RG, LAST_co, LAST_sr,
      RG \o <<" ">>,
      join(<<RG, PAT_TODO>>) \o <<" ">>,
      join(<<RG, <<>>, PATH_dot>>) }
    \cup { join(<<RG, PAT_TODO, last>>) :
             last \in {PATH_dot, SRC, LAST_co, LAST_code_t, LAST_code_dot,
                       LAST_sr, LAST_src_ma, LAST_n, LAST_zz, LAST_dash} }
    \cup { join(<<RG, DASH_G, excl, PAT_TODO, LAST_co>>) :
             excl \in {EXCL_TEST, EXCL_PY} }

\* the orders in which compgen may list a set of entries
Orders(S) ==
    {o \in [1..Cardinality(S) -> S] : \A i, j \in DOMAIN o : i # j => o[i] # o[j]}

----------------------------------------------------------------------------
(* The snippets at work in one session of the finder *)

NoPipeline == NoRun.ran

ShellInit ==
    /\ BuilderIdle
    /\ ToggleIdle
    /\ HostIdle
    /\ files \in FileSystems
    /\ state_file \in StateFiles
    /\ FZF_QUERY \in Queries
    /\ run = NoRun

\* the start event in pinned mode: START_RELOAD_PINNED runs once
start_reload_pinned(config_args) ==
    /\ run.script = "none"
    /\ run' = [script |-> "start_pinned", state |-> None,
               config_args |-> config_args, query |-> FZF_QUERY,
               cmd |-> GLOB_EXPAND(collapse(config_args, 1), FZF_QUERY),
               out |-> <<>>,
               ran |-> START_RELOAD_PINNED(config_args, FZF_QUERY,
                                           IMPLICIT_OPTS, DELTA),
               changes |-> 0]
    /\ UNCHANGED <<files, state_file, FZF_QUERY>>
    /\ UNCHANGED <<builderVars, toggleVars, hostVars>>

\* the start event in inline mode: START_RELOAD_INLINE runs once
start_reload_inline ==
    /\ run.script = "none"
    /\ run' = [script |-> "start_inline", state |-> None,
               config_args |-> <<>>, query |-> FZF_QUERY,
               cmd |-> GLOB_EXPAND(<<>>, FZF_QUERY),
               out |-> <<>>,
               ran |-> START_RELOAD_INLINE(FZF_QUERY, IMPLICIT_OPTS, DELTA),
               changes |-> 0]
    /\ UNCHANGED <<files, state_file, FZF_QUERY>>
    /\ UNCHANGED <<builderVars, toggleVars, hostVars>>

\* the change event: the query line is now q and RELOAD_TRANSFORM runs on it
change_query(q) ==
    /\ q # FZF_QUERY
    /\ run.changes < MaxQueryChanges
    /\ FZF_QUERY' = q
    /\ run' = [script |-> "reload", state |-> state_file,
               config_args |-> <<>>, query |-> q,
               cmd |-> GLOB_EXPAND(read_pinned_opts(state_file), q),
               out |-> RELOAD_TRANSFORM(state_file, q, IMPLICIT_OPTS, DELTA),
               ran |-> NoPipeline,
               changes |-> run.changes + 1]
    /\ UNCHANGED <<files, state_file>>
    /\ UNCHANGED <<builderVars, toggleVars, hostVars>>

\* the lists compgen may give for the last word; it is not run for an
\* empty word or an option
compgen(last) ==
    IF StartsWith(last, <<"-">>) \/ last = <<>> THEN { <<>> }
    ELSE Orders(compgen_f(last))

\* the tab key: TAB_COMPLETE runs on the query line
tab_complete ==
    /\ \E matches \in compgen(AfterLastBlank(FZF_QUERY)) :
          run' = [script |-> "tab", state |-> None, config_args |-> <<>>,
                  query |-> FZF_QUERY, cmd |-> <<>>,
                  out |-> TAB_COMPLETE(FZF_QUERY, matches),
                  ran |-> NoPipeline,
                  changes |-> run.changes]
    /\ UNCHANGED <<files, state_file, FZF_QUERY>>
    /\ UNCHANGED <<builderVars, toggleVars, hostVars>>

\* a mode switch replaces the state file; the file may also be removed
write_state(file) ==
    /\ file # state_file
    /\ state_file' = file
    /\ UNCHANGED <<files, FZF_QUERY, run>>
    /\ UNCHANGED <<builderVars, toggleVars, hostVars>>

ShellNext ==
    \/ \E config_args \in ConfigArgs : start_reload_pinned(config_args)
    \/ start_reload_inline
    \/ \E q \in Queries : change_query(q)
    \/ tab_complete
    \/ \E file \in StateFiles : write_state(file)

SpecShell == ShellInit /\ [][ShellNext]_vars

----------------------------------------------------------------------------
(* Claims about the reload and start-reload snippets *)

\* the words of the command line that the action "reload:<command line>"
\* hands to the shell
ActionWords(out) ==
    ShSplit(SubSeq(out, Len(RELOAD_PREFIX) + 1, Len(out)))

\* the command the action evaluates: its third word
EvalWord(out) == ActionWords(out)[3]

\* the content of a state file has the form pinned|<options> or inline|<...>
HasMode(file, word) ==
    file # None /\ StartsWith(file[1], word \o <<"|">>)

\* the options stored in a state file of the form <mode>|<options>
StoredOptions(file) ==
    LET content == file[1]
        text == IF content # <<>> /\ content[Len(content)] = "\n"
                THEN SubSeq(content, 1, Len(content) - 1) ELSE content
    IN  SubSeq(text, First(Positions(text, "|")) + 1, Len(text))

\* the query after glob expansion under the given pinned options, without
\* its leading rg
RestOfQuery(pinned_opts, q) ==
    LET cmd == GLOB_EXPAND(pinned_opts, q)
    IN  SubSeq(cmd, 3, Len(cmd))

\* the command consists of a head with exactly the given tokens, followed
\* by rest
HeadAndRest(command, tokens, rest) ==
    /\ Len(command) >= Len(rest)
    /\ SubSeq(command, Len(command) - Len(rest) + 1, Len(command)) = rest
    /\ split(SubSeq(command, 1, Len(command) - Len(rest))) = tokens

\* C12 as claimed: whenever the reload transform runs with a state file
\* that is absent or whose content is not of the form pinned|<options>, the
\* command it rebuilds from a query beginning with rg is rg, the implicit
\* options and the rest of the query, with no pinned option added.
C12_UnparseableStateIsInline ==
    (/\ run.script = "reload"
     /\ ~HasMode(run.state, PINNED)
     /\ StartsWith(run.query, RG))
        => HeadAndRest(EvalWord(run.out), <<RG, IMPLICIT_OPTS>>,
                       RestOfQuery(<<>>, run.query))

\* C13: on every run of the reload transform, the first after the start as
\* well as every later one, with a query beginning with rg: if the state
\* file read at that run has the form pinned|<options>, the rebuilt command
\* is rg, the stored options, the implicit options, then the rest of the
\* query; if it has the form inline|<...>, the rebuilt command is rg, the
\* implicit options, then the rest of the query.
C13_PinnedOptionsOnEveryReload ==
    (run.script = "reload" /\ StartsWith(run.query, RG)) =>
        /\ HasMode(run.state, PINNED) =>
              HeadAndRest(EvalWord(run.out),
                          <<RG>> \o split(StoredOptions(run.state))
                              \o <<IMPLICIT_OPTS>>,
                          RestOfQuery(StoredOptions(run.state), run.query))
        /\ HasMode(run.state, INLINE) =>
              HeadAndRest(EvalWord(run.out), <<RG, IMPLICIT_OPTS>>,
                          RestOfQuery(<<>>, run.query))

\* the second query change of a session, the state file holding
\* pinned|--hidden: "rg TODO sr" is rebuilt to "rg --hidden --json TODO src"
C13_Witness ==
    /\ run.script = "reload"
    /\ run.changes = 2
    /\ run.state = Some(PINNED \o <<"|">> \o HIDDEN)
    /\ run.query = join(<<RG, PAT_TODO, LAST_sr>>)
    /\ EvalWord(run.out) = join(<<RG, HIDDEN, IMPLICIT_OPTS, PAT_TODO, SRC>>)

\* C14: the action printed by the reload transform is, for every query and
\* state file, "reload:" and a command line of six words: the assignment
\* RIPGREP_CONFIG_PATH= with an empty value, eval, the rebuilt command as
\* one word, 2>/dev/null, the pipe sign and the delta command; the start
\* scripts run that same pipeline; the rebuilt command begins with rg
\* whenever the query does.
C14_AlwaysNoConfigAndDelta ==
    /\ run.script = "reload" =>
          LET words == ActionWords(run.out)
          IN  /\ StartsWith(run.out, RELOAD_PREFIX)
              /\ Len(words) = 6
              /\ words[1] = ENV_ASSIGN
              /\ words[2] = EVAL
              /\ words[4] = STDERR_NULL
              /\ words[5] = PIPE
              /\ words[6] = DELTA
              /\ StartsWith(run.query, RG) => StartsWith(words[3], RG)
    /\ run.script \in {"start_pinned", "start_inline"} =>
          /\ run.ran.env = ENV_ASSIGN
          /\ run.ran.stderr = STDERR_NULL
          /\ run.ran.pipe = DELTA
          /\ StartsWith(run.query, RG) => StartsWith(run.ran.eval, RG)

\* a reload whose rebuilt command holds quotes and wildcards, which the
\* action carries as one word
C14_Witness ==
    /\ run.script = "reload"
    /\ run.state = Some(PINNED \o <<"|">> \o join(<<DASH_G, EXCL_TEST>>))
    /\ run.query = join(<<RG, PAT_TODO, LAST_co>>)
    /\ EvalWord(run.out)
          = join(<<RG, DASH_G, EXCL_TEST, IMPLICIT_OPTS, PAT_TODO, CODE_PY>>)

----------------------------------------------------------------------------
(* Claims about glob expansion *)

\* a run of a script that holds the glob-expansion fragment
GlobRun == run.script \in {"reload", "start_pinned", "start_inline"}

\* the pinned options in effect at the run r
PinnedOptions(r) ==
    CASE r.script = "reload" /\ HasMode(r.state, PINNED) -> StoredOptions(r.state)
      [] r.script = "start_pinned" -> r.config_args
      [] OTHER -> <<>>

\* the last blank-delimited token of q; empty if q ends in a blank
LastToken(q) ==
    IF q = <<>> \/ q[Len(q)] = " " THEN <<>> ELSE split(q)[Len(split(q))]

\* q up to and including its last blank
BeforeLastToken(q) == SubSeq(q, 1, Len(q) - Len(LastToken(q)))

EndsWith(s, suffix) ==
    Len(suffix) <= Len(s) /\ SubSeq(s, Len(s) - Len(suffix) + 1, Len(s)) = suffix

Tokens(s) == {split(s)[i] : i \in 1..Len(split(s))}

\* the existing paths that last is a prefix of, in the directory it names
PrefixMatches(last) ==
    {p \in files.names :
        /\ StartsWith(p, last)
        /\ \A i \in (Len(last) + 1)..Len(p) : p[i] # "/"}

\* the exclusion tokens among the pinned options and the query of the run
ExclusionTokens(r) ==
    {t \in Tokens(PinnedOptions(r)) \cup Tokens(r.query) : StartsWith(t, <<"'", "!">>)}

\* the base name of p matches one of the exclusion tokens of the run
Dropped(p, r) ==
    \/ EXCL_TEST \in ExclusionTokens(r) /\ EndsWith(p, <<".", "t", "e", "s", "t">>)
    \/ EXCL_PY \in ExclusionTokens(r) /\ EndsWith(p, <<".", "p", "y">>)

\* expansion of the last token of q is attempted
Attempted(q) ==
    /\ LastToken(q) # <<>>
    /\ LastToken(q)[1] # "-"
    /\ ~exists(LastToken(q))

\* C15: in a run where expansion is attempted and the pinned options or
\* the query hold exclusion tokens '!pattern', a path that the last token
\* is a prefix of is among the tokens of the expanded command exactly if
\* its base name matches none of the exclusion patterns.
C15_ExclusionsHonoured ==
    (GlobRun /\ Attempted(run.query) /\ ExclusionTokens(run) # {}) =>
        \A p \in PrefixMatches(LastToken(run.query)) :
            p \in Tokens(run.cmd) <=> ~Dropped(p, run)

\* code.py and code.test with the pinned option -g '!*.test': only code.py
C15_Witness ==
    /\ run.script = "reload"
    /\ run.state = Some(PINNED \o <<"|">> \o join(<<DASH_G, EXCL_TEST>>))
    /\ run.query = join(<<RG, PAT_TODO, LAST_co>>)
    /\ {CODE_PY, CODE_TEST} \subseteq files.names
    /\ run.cmd = join(<<RG, PAT_TODO, CODE_PY>>)

\* C16 as claimed: in a run whose query has a last token that names no
\* existing path, is no option and is a prefix of existing paths, none of
\* them excluded, the tokens of the expanded command are the tokens of the
\* query before the last one followed by all those paths in sorted order.
C16_PrefixReplacedByMatches ==
    (/\ GlobRun
     /\ Attempted(run.query)
     /\ ExclusionTokens(run) = {}
     /\ PrefixMatches(LastToken(run.query)) # {})
        => split(run.cmd)
              = SubSeq(split(run.query), 1, Len(split(run.query)) - 1)
                   \o sorted(PrefixMatches(LastToken(run.query)))

\* C17: the expanded command always starts with the query up to its last
\* blank, and it is the query itself whenever the query ends in whitespace
\* or its last token is empty, starts with a dash, names an existing path
\* or is a prefix of no existing path.
C17_OnlyLastTokenExpanded ==
    GlobRun =>
        /\ StartsWith(run.cmd, BeforeLastToken(run.query))
        /\ (\/ ~Attempted(run.query)
            \/ PrefixMatches(LastToken(run.query)) = {})
              => run.cmd = run.query

\* "rg TODO co" where co exists next to code.test: nothing is expanded
C17_Witness ==
    /\ run.script = "start_inline"
    /\ run.query = join(<<RG, PAT_TODO, LAST_co>>)
    /\ {LAST_co, CODE_TEST} \subseteq files.names
    /\ run.cmd = run.query

\* C18: in a run where expansion is attempted and every path the last
\* token is a prefix of is excluded, the expanded command is the query.
C18_AllExcludedLeavesCommand ==
    (/\ GlobRun
     /\ Attempted(run.query)
     /\ PrefixMatches(LastToken(run.query)) # {}
     /\ \A p \in PrefixMatches(LastToken(run.query)) : Dropped(p, run))
        => run.cmd = run.query

\* "rg -g '!*.py' TODO co" under the pinned option -g '!*.test': code.py
\* and code.test are both excluded
C18_Witness ==
    /\ run.script = "start_pinned"
    /\ run.config_args = join(<<DASH_G, EXCL_TEST>>)
    /\ run.query = join(<<RG, DASH_G, EXCL_PY, PAT_TODO, LAST_co>>)
    /\ PrefixMatches(LAST_co) = {CODE_PY, CODE_TEST}
    /\ run.cmd = run.query

\* C16 for queries of two or more tokens: there the tokens before the last
\* one are kept and the last one is replaced by all matching paths.
C16_HoldsAfterEarlierToken ==
    Len(split(run.query)) >= 2 => C16_PrefixReplacedByMatches

----------------------------------------------------------------------------
(* Claims about tab completion *)

\* the entries compgen lists for the last token of q
TabMatches(q) == compgen_f(LastToken(q))

\* tab completion looks for matches of the last token of q
Completing(q) == LastToken(q) # <<>> /\ LastToken(q)[1] # "-"

\* the longest string every member of the non-empty set S starts with
LongestCommonPrefix(S) ==
    LET any == CHOOSE s \in S : TRUE
        common == {n \in 0..Len(any) :
                     \A s \in S : StartsWith(s, SubSeq(any, 1, n))}
    IN  SubSeq(any, 1, Last(common))

\* C19 as claimed: tab completion of a query whose last token has exactly
\* one match prints the query up to its last blank followed by the match,
\* with a slash appended if the match is a directory, whether or not the
\* query holds a token before the last one.
C19_SingleMatchReplacesLastToken ==
    (/\ run.script = "tab"
     /\ Completing(run.query)
     /\ Cardinality(TabMatches(run.query)) = 1)
        => LET m == CHOOSE p \in TabMatches(run.query) : TRUE
           IN  run.out = BeforeLastToken(run.query) \o m
                            \o (IF m \in files.dirs THEN <<"/">> ELSE <<>>)

\* C19 for queries of two or more tokens
C19_HoldsAfterEarlierToken ==
    Len(split(run.query)) >= 2 => C19_SingleMatchReplacesLastToken

\* C20 as claimed: tab completion of a query whose last token has more
\* than one match prints the query up to its last blank followed by the
\* longest common prefix of the matches, and the query itself when that
\* prefix is the last token.
C20_CommonPrefixReplacesLastToken ==
    (/\ run.script = "tab"
     /\ Completing(run.query)
     /\ Cardinality(TabMatches(run.query)) > 1)
        => LET pfx == LongestCommonPrefix(TabMatches(run.query))
           IN  run.out = IF pfx = LastToken(run.query) THEN run.query
                         ELSE BeforeLastToken(run.query) \o pfx

\* C20 for queries of two or more tokens
C20_HoldsAfterEarlierToken ==
    Len(split(run.query)) >= 2 => C20_CommonPrefixReplacesLastToken

\* C21: tab completion prints the query itself when its last token is
\* empty (the query is empty or ends in a blank), starts with a dash, or
\* is the prefix of no entry.
C21_TabLeavesQuery ==
    (/\ run.script = "tab"
     /\ (~Completing(run.query) \/ TabMatches(run.query) = {}))
        => run.out = run.query

\* "rg TODO zz" where nothing starts with zz
C21_Witness ==
    /\ run.script = "tab"
    /\ run.query = join(<<RG, PAT_TODO, LAST_zz>>)
    /\ TabMatches(run.query) = {}
    /\ run.out = run.query

\* C25: for the query "rg TODO ." the reload transform rebuilds, whatever
\* the state file and the files present, a command whose first token is
\* rg, whose last token is the path ".", and which holds the implicit
\* options at a place after rg and before TODO; what follows the implicit
\* options is " TODO ." as typed, the path not replaced by file names.
C25_BasicSearchCommand ==
    (run.script = "reload" /\ run.query = join(<<RG, PAT_TODO, PATH_dot>>)) =>
        LET command == EvalWord(run.out)
            t == split(command)
            n == Len(t)
        IN  /\ n >= 4
            /\ t[1] = RG
            /\ t[n] = PATH_dot
            /\ t[n - 1] = PAT_TODO
            /\ \E i \in 2..(n - 2) : t[i] = IMPLICIT_OPTS
            /\ Count(PAT_TODO, t) = 1
            /\ Count(PATH_dot, t) = 1
            /\ EndsWith(command, IMPLICIT_OPTS \o <<" ">>
                                    \o join(<<PAT_TODO, PATH_dot>>))

\* inline state: "rg TODO ." is rebuilt to "rg --json TODO ."
C25_Witness ==
    /\ run.script = "reload"
    /\ run.query = join(<<RG, PAT_TODO, PATH_dot>>)
    /\ run.state = None
    /\ EvalWord(run.out) = join(<<RG, IMPLICIT_OPTS, PAT_TODO, PATH_dot>>)

\* the option strings P a state file is written with
OptionStrings ==
    { <<>>, HIDDEN, join(<<DASH_G, EXCL_TEST>>), join(<<DASH_E, ALTERNATION>>) }

\* C30: for every option string P, one holding a bar included: when the
\* state file holds pinned|P, the reload transform rebuilds a query
\* beginning with rg to rg, then P character for character (nothing when P
\* is empty), then the implicit options and the rest of the query expanded
\* under the exclusions of P; when it holds inline|P, the command is rg,
\* the implicit options and the rest of the query, nothing of P in it and
\* no exclusion of P applied.
C30_StateDecodedAtFirstBar ==
    \A P \in OptionStrings :
        (run.script = "reload" /\ StartsWith(run.query, RG)) =>
            /\ run.state = Some(PINNED \o <<"|">> \o P) =>
                  EvalWord(run.out) =
                      RG \o (IF P # <<>> THEN <<" ">> \o P ELSE <<>>)
                         \o <<" ">> \o IMPLICIT_OPTS
                         \o RestOfQuery(P, run.query)
            /\ run.state = Some(INLINE \o <<"|">> \o P) =>
                  EvalWord(run.out) =
                      RG \o <<" ">> \o IMPLICIT_OPTS
                         \o RestOfQuery(<<>>, run.query)

\* the state file holds pinned|-e 'a|b': "rg TODO ." is rebuilt to
\* "rg -e 'a|b' --json TODO ."
C30_Witness ==
    /\ run.script = "reload"
    /\ run.state = Some(PINNED \o <<"|">> \o join(<<DASH_E, ALTERNATION>>))
    /\ run.query = join(<<RG, PAT_TODO, PATH_dot>>)
    /\ EvalWord(run.out) =
           join(<<RG, DASH_E, ALTERNATION, IMPLICIT_OPTS, PAT_TODO, PATH_dot>>)

\* C27: the command the pinned start script, built with config flags C,
\* evaluates for a query is, word for word, the command the reload
\* transform rebuilds for that query and the same files when the state
\* file holds pinned|C, and the very same text when C holds no run of
\* blanks; this whatever the state file holds at the start, which the
\* script does not read. The command the inline start script evaluates is
\* the text the reload transform rebuilds when the state file holds
\* inline| or is absent.
C27_StartMatchesReload ==
    /\ run.script = "start_pinned" =>
          LET C == run.config_args
              rebuilt == reload_command(Some(PINNED \o <<"|">> \o C),
                                        run.query, IMPLICIT_OPTS)
          IN  /\ ShSplit(run.ran.eval) = ShSplit(rebuilt)
              /\ collapse(C, 1) = C => run.ran.eval = rebuilt
    /\ run.script = "start_inline" =>
          /\ run.ran.eval = reload_command(Some(INLINE \o <<"|">>),
                                           run.query, IMPLICIT_OPTS)
          /\ run.ran.eval = reload_command(None, run.query, IMPLICIT_OPTS)

\* the pinned start script built with -g '!*.test' runs while the state
\* file holds inline|--hidden: "rg TODO co" becomes
\* "rg -g '!*.test' --json TODO code.py"
C27_Witness ==
    /\ run.script = "start_pinned"
    /\ run.config_args = join(<<DASH_G, EXCL_TEST>>)
    /\ state_file = Some(INLINE \o <<"|">> \o HIDDEN)
    /\ files.dirs = {SRC}
    /\ run.query = join(<<RG, PAT_TODO, LAST_co>>)
    /\ run.ran.eval =
           join(<<RG, DASH_G, EXCL_TEST, IMPLICIT_OPTS, PAT_TODO, CODE_PY>>)

\* the pinned options glob expansion worked with in the run r
ExpandedUnder(r) ==
    IF r.script = "reload" THEN read_pinned_opts(r.state)
    ELSE collapse(r.config_args, 1)

\* glob expansion of the expanded command of the last run gives that
\* command again
GlobIdempotent ==
    GlobRun => GLOB_EXPAND(ExpandedUnder(run), run.cmd) = run.cmd

\* tab completion of the line printed by the last tab run prints that line
\* again, whatever order compgen lists the matches in
TabIdempotent ==
    run.script = "tab" =>
        \A matches \in compgen(AfterLastBlank(run.out)) :
            TAB_COMPLETE(run.out, matches) = run.out

\* C28 as claimed: with the files and the state unchanged, glob expansion
\* of its own output gives that output, and tab completion of its own
\* output gives that output.
C28_SnippetsIdempotent == GlobIdempotent /\ TabIdempotent

\* C28: with the files and the state unchanged, glob expansion of its own
\* output gives that output; tab completion of its own output gives that
\* output unless the output ends in the slash added to a completed
\* directory, where a second completion goes on with the entries of that
\* directory.
C28_IdempotentUnlessDirectory ==
    /\ GlobIdempotent
    /\ (run.script = "tab" /\ ~EndsWith(run.out, <<"/">>)) =>
          \A matches \in compgen(AfterLastBlank(run.out)) :
              TAB_COMPLETE(run.out, matches) = run.out

\* "rg TODO n" was completed to "rg TODO notes.txt", which completes to
\* itself
C28_Witness ==
    /\ run.script = "tab"
    /\ run.query = join(<<RG, PAT_TODO, LAST_n>>)
    /\ run.out = join(<<RG, PAT_TODO, NOTES_TXT>>)
    /\ TAB_COMPLETE(run.out, <<NOTES_TXT>>) = run.out

-----------------------------------------------------------------------------
(* Cursor positioning at startup: CURSOR_POSITION of shell_scripts.py, run
   by the finder as a transform bound to its result event. The finder
   performs the actions the transform prints, in order. *)

ECHO_POSITION ==
    <<"c", "h", "a", "n", "g", "e", "-", "q", "u", "e", "r", "y", "(", "r", "g", " ", " ", ".", ")", "+", "b", "a", "c", "k", "w", "a", "r", "d", "-", "c", "h", "a", "r", "+", "b", "a", "c", "k", "w", "a", "r", "d", "-", "c", "h", "a", "r", "+", "u", "n", "b", "i", "n", "d", "(", "r", "e", "s", "u", "l", "t", ")">>
ECHO_UNBIND ==
    <<"u", "n", "b", "i", "n", "d", "(", "r", "e", "s", "u", "l", "t", ")">>
BARE ==
    <<"r", "g", " ">>
CHANGE_QUERY ==
    <<"c", "h", "a", "n", "g", "e", "-", "q", "u", "e", "r", "y">>
BACKWARD_CHAR ==
    <<"b", "a", "c", "k", "w", "a", "r", "d", "-", "c", "h", "a", "r">>
UNBIND ==
    <<"u", "n", "b", "i", "n", "d">>
RESULT ==
    <<"r", "e", "s", "u", "l", "t">>
PRIMED ==
    <<"r", "g", " ", " ", ".">>

\* at most this many keys typed in one session
MaxTyped == 2

\* CURSOR_POSITION with one backward-char only
CURSOR_POSITION_one_back(q) ==
    IF q = BARE
    THEN CHANGE_QUERY \o <<"(">> \o PRIMED \o <<")", "+">> \o BACKWARD_CHAR
            \o <<"+">> \o ECHO_UNBIND
    ELSE ECHO_UNBIND

\* CURSOR_POSITION: the line echoed for the query q
CURSOR_POSITION(q) ==
    IF q = BARE THEN ECHO_POSITION ELSE ECHO_UNBIND

\* the actions of a line, which a plus sign separates
RECURSIVE actions_of(_, _)
actions_of(text, i) ==
    IF i > Len(text) THEN <<>>
    ELSE LET j == NextOf(text, i, {"+"})
         IN  <<SubSeq(text, i, j - 1)>> \o actions_of(text, j + 1)

\* the finder f after one action: change-query(text) replaces the query
\* line and leaves the cursor at its end, backward-char moves the cursor
\* one character to the left, unbind(result) removes the binding of the
\* result event
perform(f, act) ==
    LET open == NextOf(act, 1, {"("})
        name == SubSeq(act, 1, open - 1)
        arg == SubSeq(act, open + 1, Len(act) - 1)
    IN  CASE name = CHANGE_QUERY ->
                [f EXCEPT !.query = arg, !.cursor = Len(arg)]
          [] name = BACKWARD_CHAR ->
                [f EXCEPT !.cursor = IF @ > 0 THEN @ - 1 ELSE 0]
          [] name = UNBIND /\ arg = RESULT ->
                [f EXCEPT !.bound = FALSE]
          [] OTHER -> f

RECURSIVE perform_all(_, _, _)
perform_all(f, acts, i) ==
    IF i > Len(acts) THEN f
    ELSE perform_all(perform(f, acts[i]), acts, i + 1)

\* the query lines a session starts with
StartQueries ==
    { <<>>, RG, BARE, BARE \o <<" ">>, PRIMED, join(<<RG, PAT_TODO>>),
      join(<<RG, PAT_TODO, PATH_dot>>) }

\* the keys typed
Keys == { " ", "r", "g", "." }

\* the finder starts with the cursor at the end of the query line and the
\* transform bound to the result event
CursorInit ==
    /\ BuilderIdle
    /\ ToggleIdle
    /\ ShellIdle
    /\ fragment = NoFragment
    /\ cli = NoCli
    /\ \E q \in StartQueries :
          finder = [NoFinder EXCEPT !.query = q, !.cursor = Len(q),
                                    !.bound = TRUE]

\* the result event: the transform runs if it is still bound
result ==
    /\ finder' =
          IF finder.bound
          THEN LET acts == actions_of(CURSOR_POSITION(finder.query), 1)
                   f == perform_all(finder, acts, 1)
               IN  [f EXCEPT !.positioned = @ + 1, !.last = "result",
                             !.was = [query |-> finder.query,
                                      cursor |-> finder.cursor]]
          ELSE [finder EXCEPT !.last = "ignored"]
    /\ UNCHANGED <<fragment, cli>>
    /\ UNCHANGED <<builderVars, toggleVars, shellVars>>

\* a key typed: the character goes in at the cursor
type(key) ==
    /\ finder.typed < MaxTyped
    /\ finder' =
          [finder EXCEPT
              !.query = SubSeq(@, 1, finder.cursor) \o <<key>>
                           \o SubSeq(@, finder.cursor + 1, Len(@)),
              !.cursor = @ + 1, !.typed = @ + 1, !.last = "type"]
    /\ UNCHANGED <<fragment, cli>>
    /\ UNCHANGED <<builderVars, toggleVars, shellVars>>

CursorNext ==
    \/ result
    \/ \E key \in Keys : type(key)

SpecCursor == CursorInit /\ [][CursorNext]_vars

\* the transform has just run
Positioned == finder.last = "result"

\* C22 as claimed: the transform changes the query only when it is "rg ";
\* the query is then "rg  ." with the cursor directly before the path ".";
\* for every other query neither the query nor the cursor changes; the
\* result binding is removed in both cases and the transform runs at most
\* once in a session.
C22_CursorBeforePath ==
    /\ finder.positioned <= 1
    /\ finder.positioned = 1 => ~finder.bound
    /\ Positioned =>
          IF finder.was.query = BARE
          THEN /\ finder.query = PRIMED
               /\ SubSeq(finder.query, finder.cursor + 1, Len(finder.query))
                     = PATH_dot
          ELSE /\ finder.query = finder.was.query
               /\ finder.cursor = finder.was.cursor

\* C22: the transform changes the query only when it is "rg "; the query
\* is then "rg  ." with the cursor between its two blanks, so that text
\* typed next stands after "rg " and a blank separates it from the path
\* "."; for every other query neither the query nor the cursor changes;
\* the result binding is removed in both cases and the transform runs at
\* most once in a session.
C22_CursorBeforeSeparator ==
    /\ finder.positioned <= 1
    /\ finder.positioned = 1 => ~finder.bound
    /\ Positioned =>
          IF finder.was.query = BARE
          THEN /\ finder.query = PRIMED
               /\ SubSeq(finder.query, 1, finder.cursor) = BARE
               /\ SubSeq(finder.query, finder.cursor + 1, Len(finder.query))
                     = <<" ">> \o PATH_dot
          ELSE /\ finder.query = finder.was.query
               /\ finder.cursor = finder.was.cursor

\* the session started with "rg ": the query is "rg  .", the cursor after
\* its third character, and a later result event is ignored
C22_Witness ==
    /\ finder.last = "ignored"
    /\ finder.was.query = BARE
    /\ finder.query = PRIMED
    /\ finder.cursor = 3
    /\ finder.positioned = 1
    /\ ~finder.bound

-----------------------------------------------------------------------------
(* The command line entry point: main() of cli.py. One run of it is the
   record cli: pc is the place in main(), argv the arguments of the call,
   exists whether the bundled script is there, called whether
   subprocess.run was called, launched the argument list of the subprocess
   if one was started, child how the subprocess ended,
   raised the exception in flight, stderr the message printed, and exit
   the exit status of the run once it has ended. *)

SCRIPT_RGI ==
    <<"s", "c", "r", "i", "p", "t", "s", "/", "r", "g", "i">>
COMMAND_MODE ==
    <<"-", "-", "r", "g", "i", "-", "c", "o", "m", "m", "a", "n", "d", "-", "m", "o", "d", "e">>

\* sys.exit(1) of lines 17 and 27, sys.exit(130) of line 24
EXIT_ERROR == 1
EXIT_INTERRUPTED == 130

\* the exception classes of the run and their base classes
Bases(class) ==
    CASE class = "BaseException" -> {"BaseException"}
      [] class = "Exception" -> {"Exception", "BaseException"}
      [] class = "OSError" -> {"OSError", "Exception", "BaseException"}
      [] OTHER -> {class, "BaseException"}

\* the except clauses of the try statement, in order
Handlers == <<"KeyboardInterrupt", "Exception">>

\* a try statement whose last clause catches every exception
handler_of_catching_all(class) ==
    IF class = "KeyboardInterrupt" THEN "KeyboardInterrupt" ELSE "Exception"

\* the first except clause that catches an exception of the class, "none"
\* if no clause does
handler_of(class) ==
    IF \E i \in 1..Len(Handlers) : Handlers[i] \in Bases(class)
    THEN Handlers[CHOOSE i \in 1..Len(Handlers) :
                     /\ Handlers[i] \in Bases(class)
                     /\ \A j \in 1..(i - 1) : Handlers[j] \notin Bases(class)]
    ELSE "none"

\* main() launching the subprocess although the script is missing
check_script_unchecked ==
    /\ cli.pc = "start"
    /\ cli' = [cli EXCEPT !.pc = "try"]
    /\ UNCHANGED <<fragment, finder>>
    /\ UNCHANGED <<builderVars, toggleVars, shellVars>>

\* the status a process ends with on sys.exit(code)
status(code) == code % 256

\* the argument lists the entry point is called with
Argvs ==
    { <<RGI>>, <<RGI, PAT_TODO>>, <<RGI, PAT_TODO, PATH_dot>>,
      <<RGI, COMMAND_MODE>>, <<RGI, DASH_G, EXCL_TEST, PAT_TODO, <<>> >> }

\* the exit codes of the script and the signals that may end it
ExitCodes == {0, 1, 2, 127, 130, 255}
Signals == {9, 15}

CliInit ==
    /\ BuilderIdle
    /\ ToggleIdle
    /\ ShellIdle
    /\ fragment = NoFragment
    /\ finder = NoFinder
    /\ \E argv \in Argvs, present \in BOOLEAN :
          cli = [NoCli EXCEPT !.pc = "start", !.argv = argv, !.exists = present]

\* lines 13-17: without the script an error message and sys.exit(1),
\* outside the try statement
check_script ==
    /\ cli.pc = "start"
    /\ cli' = IF ~cli.exists
              THEN [cli EXCEPT !.stderr = "Error: rgi script not found",
                               !.exit = Some(status(EXIT_ERROR)),
                               !.pc = "exited"]
              ELSE [cli EXCEPT !.pc = "try"]
    /\ UNCHANGED <<fragment, finder>>
    /\ UNCHANGED <<builderVars, toggleVars, shellVars>>

\* line 21: subprocess.run starts the script with the arguments after
\* argv[0], or raises OSError when the script cannot be started
subprocess_run ==
    /\ cli.pc = "try"
    /\ \/ /\ cli.exists
          /\ cli' = [cli EXCEPT !.called = TRUE,
                                !.launched = Some(<<SCRIPT_RGI>> \o Tail(cli.argv)),
                                !.pc = "running"]
       \/ cli' = [cli EXCEPT !.called = TRUE, !.raised = "OSError",
                             !.pc = "raised"]
    /\ UNCHANGED <<fragment, finder>>
    /\ UNCHANGED <<builderVars, toggleVars, shellVars>>

\* the script ends with an exit code, which is the returncode
child_exits(code) ==
    /\ cli.pc = "running"
    /\ cli' = [cli EXCEPT !.child = "exited", !.returncode = code,
                          !.pc = "returned"]
    /\ UNCHANGED <<fragment, finder>>
    /\ UNCHANGED <<builderVars, toggleVars, shellVars>>

\* a signal ends the script: the returncode is the negated signal number
child_killed(signal) ==
    /\ cli.pc = "running"
    /\ cli' = [cli EXCEPT !.child = "killed", !.returncode = -signal,
                          !.pc = "returned"]
    /\ UNCHANGED <<fragment, finder>>
    /\ UNCHANGED <<builderVars, toggleVars, shellVars>>

\* Ctrl-C while subprocess.run waits: KeyboardInterrupt is raised in it
interrupt ==
    /\ cli.pc = "running"
    /\ cli' = [cli EXCEPT !.child = "interrupted",
                          !.raised = "KeyboardInterrupt", !.pc = "raised"]
    /\ UNCHANGED <<fragment, finder>>
    /\ UNCHANGED <<builderVars, toggleVars, shellVars>>

\* line 22: sys.exit(result.returncode) raises SystemExit inside the try
\* statement
sys_exit ==
    /\ cli.pc = "returned"
    /\ cli' = [cli EXCEPT !.raised = "SystemExit", !.pc = "raised"]
    /\ UNCHANGED <<fragment, finder>>
    /\ UNCHANGED <<builderVars, toggleVars, shellVars>>

\* lines 23-27: the clause that catches the exception runs; SystemExit,
\* which no clause catches, ends the run with its code
except ==
    /\ cli.pc = "raised"
    /\ cli' = CASE handler_of(cli.raised) = "KeyboardInterrupt" ->
                    [cli EXCEPT !.exit = Some(status(EXIT_INTERRUPTED)),
                                !.pc = "exited"]
                [] handler_of(cli.raised) = "Exception" ->
                    [cli EXCEPT !.stderr = "Error running rgi",
                                !.exit = Some(status(EXIT_ERROR)),
                                !.pc = "exited"]
                [] OTHER ->
                    [cli EXCEPT !.exit = Some(status(cli.returncode)),
                                !.pc = "exited"]
    /\ UNCHANGED <<fragment, finder>>
    /\ UNCHANGED <<builderVars, toggleVars, shellVars>>

CliNext ==
    \/ check_script
    \/ subprocess_run
    \/ \E code \in ExitCodes : child_exits(code)
    \/ \E signal \in Signals : child_killed(signal)
    \/ interrupt
    \/ sys_exit
    \/ except

SpecCli == CliInit /\ [][CliNext]_vars

\* C23: the subprocess, when one is started, gets the script followed by
\* the arguments of the call after argv[0], unchanged and in order; when
\* it ends with an exit code, whatever the code, the run ends with that
\* code and prints no error message; when Ctrl-C interrupts the wait for
\* it, the run ends with 130.
C23_ExitCodeForwarded ==
    /\ cli.launched # None =>
          cli.launched = Some(<<SCRIPT_RGI>> \o SubSeq(cli.argv, 2, Len(cli.argv)))
    /\ (cli.pc = "exited" /\ cli.child = "exited") =>
          /\ cli.returncode \in ExitCodes
          /\ cli.exit = Some(cli.returncode)
          /\ cli.stderr = ""
    /\ (cli.pc = "exited" /\ cli.child = "interrupted") =>
          cli.exit = Some(EXIT_INTERRUPTED)

\* the script ended with 2 and so does the run, the arguments TODO and .
\* having been handed on
C23_Witness ==
    /\ cli.pc = "exited"
    /\ cli.argv = <<RGI, PAT_TODO, PATH_dot>>
    /\ cli.launched = Some(<<SCRIPT_RGI, PAT_TODO, PATH_dot>>)
    /\ cli.child = "exited"
    /\ cli.returncode = 2
    /\ cli.exit = Some(2)

\* C24: a run without the bundled script ends with an error message and
\* exit status 1, and subprocess.run is not called in it; a run
\* in which the script could not be started ends with an error message
\* and exit status 1 too; no run that started no subprocess ends with
\* status 0 or without a message.
C24_MissingScriptFails ==
    /\ ~cli.exists => (~cli.called /\ cli.launched = None)
    /\ (cli.pc = "exited" /\ ~cli.exists) =>
          /\ cli.exit = Some(EXIT_ERROR)
          /\ cli.stderr # ""
    /\ (cli.pc = "exited" /\ cli.launched = None) =>
          /\ cli.exit = Some(EXIT_ERROR)
          /\ cli.stderr # ""

\* the script is missing: message, status 1, no subprocess
C24_Witness ==
    /\ cli.pc = "exited"
    /\ ~cli.exists
    /\ ~cli.called
    /\ cli.launched = None
    /\ cli.exit = Some(EXIT_ERROR)
    /\ cli.stderr = "Error: rgi script not found"

-----------------------------------------------------------------------------
(* The fragments as text: the templates of shell_scripts.py character for
   character, str.format filling them in, and oneline() making one line of
   the result. *)

GLOB_EXPAND_text ==
    <<"\n">>
    \o <<" ", " ", " ", " ", "i", "f", " ", "[", "[", " ", "!", " ", "\"", "$", "c", "m", "d", "\"", " ", "=", "~", " ", "[", "[", ":", "s", "p", "a", "c", "e", ":", "]", "]", "$", " ", "]", "]", ";", " ", "t", "h", "e", "n", "\n">>
    \o <<" ", " ", " ", " ", " ", " ", " ", " ", "l", "a", "s", "t", "=", "\"", "$", "{", "c", "m", "d", "#", "#", "*", " ", "}", "\"", ";", "\n">>
    \o <<" ", " ", " ", " ", " ", " ", " ", " ", "i", "f", " ", "[", "[", " ", "\"", "$", "l", "a", "s", "t", "\"", " ", "!", "=", " ", "-", "*", " ", "&", "&", " ", "!", " ", "-", "e", " ", "\"", "$", "l", "a", "s", "t", "\"", " ", "&", "&", " ", "-", "n", " ", "\"", "$", "l", "a", "s", "t", "\"", " ", "]", "]", ";", " ", "t", "h", "e", "n", "\n">>
    \o <<" ", " ", " ", " ", " ", " ", " ", " ", " ", " ", " ", " ", "s", "h", "o", "p", "t", " ", "-", "s", " ", "n", "u", "l", "l", "g", "l", "o", "b", ";", "\n">>
    \o <<" ", " ", " ", " ", " ", " ", " ", " ", " ", " ", " ", " ", "m", "a", "t", "c", "h", "e", "s", "=", "(", " ", "$", "{", "l", "a", "s", "t", "}", "*", " ", ")", ";", "\n">>
    \o <<" ", " ", " ", " ", " ", " ", " ", " ", " ", " ", " ", " ", "s", "h", "o", "p", "t", " ", "-", "u", " ", "n", "u", "l", "l", "g", "l", "o", "b", ";", "\n">>
    \o <<" ", " ", " ", " ", " ", " ", " ", " ", " ", " ", " ", " ", "i", "f", " ", "[", "[", " ", "$", "{", "#", "m", "a", "t", "c", "h", "e", "s", "[", "@", "]", "}", " ", "-", "g", "t", " ", "0", " ", "]", "]", ";", " ", "t", "h", "e", "n", "\n">>
    \o <<" ", " ", " ", " ", " ", " ", " ", " ", " ", " ", " ", " ", " ", " ", " ", " ", "a", "l", "l", "_", "o", "p", "t", "s", "=", "\"", "$", "p", "i", "n", "n", "e", "d", "_", "o", "p", "t", "s", " ", "$", "c", "m", "d", "\"", ";", "\n">>
    \o <<" ", " ", " ", " ", " ", " ", " ", " ", " ", " ", " ", " ", " ", " ", " ", " ", "i", "f", " ", "e", "c", "h", "o", " ", "\"", "$", "a", "l", "l", "_", "o", "p", "t", "s", "\"", " ", "|", " ", "g", "r", "e", "p", " ", "-", "q", "E", " ", "\"", "'", "!", "[", "^", "'", "]", "*", "'", "\"", ";", " ", "t", "h", "e", "n", "\n">>
    \o <<" ", " ", " ", " ", " ", " ", " ", " ", " ", " ", " ", " ", " ", " ", " ", " ", " ", " ", " ", " ", "f", "i", "l", "t", "e", "r", "e", "d", "=", "(", ")", ";", "\n">>
    \o <<" ", " ", " ", " ", " ", " ", " ", " ", " ", " ", " ", " ", " ", " ", " ", " ", " ", " ", " ", " ", "f", "o", "r", " ", "m", " ", "i", "n", " ", "\"", "$", "{", "m", "a", "t", "c", "h", "e", "s", "[", "@", "]", "}", "\"", ";", " ", "d", "o", "\n">>
    \o <<" ", " ", " ", " ", " ", " ", " ", " ", " ", " ", " ", " ", " ", " ", " ", " ", " ", " ", " ", " ", " ", " ", " ", " ", "e", "x", "c", "l", "u", "d", "e", "d", "=", "f", "a", "l", "s", "e", ";", "\n">>
    \o <<" ", " ", " ", " ", " ", " ", " ", " ", " ", " ", " ", " ", " ", " ", " ", " ", " ", " ", " ", " ", " ", " ", " ", " ", "w", "h", "i", "l", "e", " ", "I", "F", "S", "=", " ", "r", "e", "a", "d", " ", "-", "r", " ", "p", "a", "t", "t", "e", "r", "n", ";", " ", "d", "o", "\n">>
    \o <<" ", " ", " ", " ", " ", " ", " ", " ", " ", " ", " ", " ", " ", " ", " ", " ", " ", " ", " ", " ", " ", " ", " ", " ", " ", " ", " ", " ", "i", "f", " ", "[", "[", " ", "-", "n", " ", "\"", "$", "p", "a", "t", "t", "e", "r", "n", "\"", " ", "&", "&", " ", "\"", "$", "(", "b", "a", "s", "e", "n", "a", "m", "e", " ", "\"", "$", "m", "\"", ")", "\"", " ", "=", "=", " ", "$", "p", "a", "t", "t", "e", "r", "n", " ", "]", "]", ";", " ", "t", "h", "e", "n", "\n">>
    \o <<" ", " ", " ", " ", " ", " ", " ", " ", " ", " ", " ", " ", " ", " ", " ", " ", " ", " ", " ", " ", " ", " ", " ", " ", " ", " ", " ", " ", " ", " ", " ", " ", "e", "x", "c", "l", "u", "d", "e", "d", "=", "t", "r", "u", "e", ";", "\n">>
    \o <<" ", " ", " ", " ", " ", " ", " ", " ", " ", " ", " ", " ", " ", " ", " ", " ", " ", " ", " ", " ", " ", " ", " ", " ", " ", " ", " ", " ", " ", " ", " ", " ", "b", "r", "e", "a", "k", ";", "\n">>
    \o <<" ", " ", " ", " ", " ", " ", " ", " ", " ", " ", " ", " ", " ", " ", " ", " ", " ", " ", " ", " ", " ", " ", " ", " ", " ", " ", " ", " ", "f", "i", ";", "\n">>
    \o <<" ", " ", " ", " ", " ", " ", " ", " ", " ", " ", " ", " ", " ", " ", " ", " ", " ", " ", " ", " ", " ", " ", " ", " ", "d", "o", "n", "e", " ", "<", " ", "<", "(", "e", "c", "h", "o", " ", "\"", "$", "a", "l", "l", "_", "o", "p", "t", "s", "\"", " ", "|", " ", "g", "r", "e", "p", " ", "-", "o", "E", " ", "\"", "'", "!", "[", "^", "'", "]", "*", "'", "\"", " ", "|", " ", "s", "e", "d", " ", "\"", "s", "/", "^", "'", "!", "/", "/", ";", "s", "/", "'", "$", "/", "/", "\"", ")", ";", "\n">>
    \o <<" ", " ", " ", " ", " ", " ", " ", " ", " ", " ", " ", " ", " ", " ", " ", " ", " ", " ", " ", " ", " ", " ", " ", " ", "i", "f", " ", "[", "[", " ", "\"", "$", "e", "x", "c", "l", "u", "d", "e", "d", "\"", " ", "=", "=", " ", "f", "a", "l", "s", "e", " ", "]", "]", ";", " ", "t", "h", "e", "n", "\n">>
    \o <<" ", " ", " ", " ", " ", " ", " ", " ", " ", " ", " ", " ", " ", " ", " ", " ", " ", " ", " ", " ", " ", " ", " ", " ", " ", " ", " ", " ", "f", "i", "l", "t", "e", "r", "e", "d", "+", "=", "(", "\"", "$", "m", "\"", ")", ";", "\n">>
    \o <<" ", " ", " ", " ", " ", " ", " ", " ", " ", " ", " ", " ", " ", " ", " ", " ", " ", " ", " ", " ", " ", " ", " ", " ", "f", "i", ";", "\n">>
    \o <<" ", " ", " ", " ", " ", " ", " ", " ", " ", " ", " ", " ", " ", " ", " ", " ", " ", " ", " ", " ", "d", "o", "n", "e", ";", "\n">>
    \o <<" ", " ", " ", " ", " ", " ", " ", " ", " ", " ", " ", " ", " ", " ", " ", " ", " ", " ", " ", " ", "m", "a", "t", "c", "h", "e", "s", "=", "(", "\"", "$", "{", "f", "i", "l", "t", "e", "r", "e", "d", "[", "@", "]", "}", "\"", ")", ";", "\n">>
    \o <<" ", " ", " ", " ", " ", " ", " ", " ", " ", " ", " ", " ", " ", " ", " ", " ", "f", "i", ";", "\n">>
    \o <<" ", " ", " ", " ", " ", " ", " ", " ", " ", " ", " ", " ", " ", " ", " ", " ", "i", "f", " ", "[", "[", " ", "$", "{", "#", "m", "a", "t", "c", "h", "e", "s", "[", "@", "]", "}", " ", "-", "g", "t", " ", "0", " ", "]", "]", ";", " ", "t", "h", "e", "n", "\n">>
    \o <<" ", " ", " ", " ", " ", " ", " ", " ", " ", " ", " ", " ", " ", " ", " ", " ", " ", " ", " ", " ", "c", "m", "d", "=", "\"", "$", "{", "c", "m", "d", "%", " ", "*", "}", " ", "$", "{", "m", "a", "t", "c", "h", "e", "s", "[", "*", "]", "}", "\"", ";", "\n">>
    \o <<" ", " ", " ", " ", " ", " ", " ", " ", " ", " ", " ", " ", " ", " ", " ", " ", "f", "i", ";", "\n">>
    \o <<" ", " ", " ", " ", " ", " ", " ", " ", " ", " ", " ", " ", "f", "i", ";", "\n">>
    \o <<" ", " ", " ", " ", " ", " ", " ", " ", "f", "i", ";", "\n">>
    \o <<" ", " ", " ", " ", "f", "i", ";", "\n">>

RELOAD_TRANSFORM_text ==
    <<"\n">>
    \o <<" ", " ", " ", " ", "s", "t", "a", "t", "e", "_", "f", "i", "l", "e", "=", "\"", "$", "R", "G", "I", "_", "S", "T", "A", "T", "E", "_", "F", "I", "L", "E", "\"", ";", "\n">>
    \o <<" ", " ", " ", " ", "p", "i", "n", "n", "e", "d", "_", "o", "p", "t", "s", "=", "\"", "\"", ";", "\n">>
    \o <<" ", " ", " ", " ", "i", "f", " ", "[", "[", " ", "-", "f", " ", "\"", "$", "s", "t", "a", "t", "e", "_", "f", "i", "l", "e", "\"", " ", "]", "]", ";", " ", "t", "h", "e", "n", "\n">>
    \o <<" ", " ", " ", " ", " ", " ", " ", " ", "s", "t", "a", "t", "e", "=", "$", "(", "c", "a", "t", " ", "\"", "$", "s", "t", "a", "t", "e", "_", "f", "i", "l", "e", "\"", ")", ";", "\n">>
    \o <<" ", " ", " ", " ", " ", " ", " ", " ", "m", "o", "d", "e", "=", "\"", "$", "{", "{", "s", "t", "a", "t", "e", "%", "%", "|", "*", "}", "}", "\"", ";", "\n">>
    \o <<" ", " ", " ", " ", " ", " ", " ", " ", "i", "f", " ", "[", "[", " ", "\"", "$", "m", "o", "d", "e", "\"", " ", "=", "=", " ", "\"", "p", "i", "n", "n", "e", "d", "\"", " ", "]", "]", ";", " ", "t", "h", "e", "n", "\n">>
    \o <<" ", " ", " ", " ", " ", " ", " ", " ", " ", " ", " ", " ", "p", "i", "n", "n", "e", "d", "_", "o", "p", "t", "s", "=", "\"", "$", "{", "{", "s", "t", "a", "t", "e", "#", "*", "|", "}", "}", "\"", ";", "\n">>
    \o <<" ", " ", " ", " ", " ", " ", " ", " ", "f", "i", ";", "\n">>
    \o <<" ", " ", " ", " ", "f", "i", ";", "\n">>
    \o <<" ", " ", " ", " ", "c", "m", "d", "=", "\"", "$", "F", "Z", "F", "_", "Q", "U", "E", "R", "Y", "\"", ";", "\n">>
    \o <<" ", " ", " ", " ", "{", "g", "l", "o", "b", "_", "e", "x", "p", "a", "n", "d", "}", "\n">>
    \o <<" ", " ", " ", " ", "i", "f", " ", "[", "[", " ", "\"", "$", "c", "m", "d", "\"", " ", "=", "~", " ", "^", "r", "g", " ", "]", "]", ";", " ", "t", "h", "e", "n", "\n">>
    \o <<" ", " ", " ", " ", " ", " ", " ", " ", "c", "m", "d", "=", "\"", "$", "{", "{", "c", "m", "d", "#", "r", "g", "}", "}", "\"", ";", "\n">>
    \o <<" ", " ", " ", " ", " ", " ", " ", " ", "i", "f", " ", "[", "[", " ", "-", "n", " ", "\"", "$", "p", "i", "n", "n", "e", "d", "_", "o", "p", "t", "s", "\"", " ", "]", "]", ";", " ", "t", "h", "e", "n", "\n">>
    \o <<" ", " ", " ", " ", " ", " ", " ", " ", " ", " ", " ", " ", "c", "m", "d", "=", "\"", "r", "g", " ", "$", "p", "i", "n", "n", "e", "d", "_", "o", "p", "t", "s", " ", "{", "i", "m", "p", "l", "i", "c", "i", "t", "_", "o", "p", "t", "s", "}", "$", "c", "m", "d", "\"", ";", "\n">>
    \o <<" ", " ", " ", " ", " ", " ", " ", " ", "e", "l", "s", "e", "\n">>
    \o <<" ", " ", " ", " ", " ", " ", " ", " ", " ", " ", " ", " ", "c", "m", "d", "=", "\"", "r", "g", " ", "{", "i", "m", "p", "l", "i", "c", "i", "t", "_", "o", "p", "t", "s", "}", "$", "c", "m", "d", "\"", ";", "\n">>
    \o <<" ", " ", " ", " ", " ", " ", " ", " ", "f", "i", ";", "\n">>
    \o <<" ", " ", " ", " ", "f", "i", ";", "\n">>
    \o <<" ", " ", " ", " ", "p", "r", "i", "n", "t", "f", " ", "'", "r", "e", "l", "o", "a", "d", ":", "R", "I", "P", "G", "R", "E", "P", "_", "C", "O", "N", "F", "I", "G", "_", "P", "A", "T", "H", "=", " ", "e", "v", "a", "l", " ", "%", "q", " ", "2", ">", "/", "d", "e", "v", "/", "n", "u", "l", "l", " ", "|", " ", "{", "d", "e", "l", "t", "a", "}", "'", " ", "\"", "$", "c", "m", "d", "\"", "\n">>

START_RELOAD_PINNED_text ==
    <<"\n">>
    \o <<" ", " ", " ", " ", "p", "i", "n", "n", "e", "d", "_", "o", "p", "t", "s", "=", "\"", "{", "c", "o", "n", "f", "i", "g", "_", "a", "r", "g", "s", "}", "\"", ";", "\n">>
    \o <<" ", " ", " ", " ", "c", "m", "d", "=", "{", "{", "q", "}", "}", ";", "\n">>
    \o <<" ", " ", " ", " ", "{", "g", "l", "o", "b", "_", "e", "x", "p", "a", "n", "d", "}", "\n">>
    \o <<" ", " ", " ", " ", "i", "f", " ", "[", "[", " ", "\"", "$", "c", "m", "d", "\"", " ", "=", "~", " ", "^", "r", "g", " ", "]", "]", ";", " ", "t", "h", "e", "n", "\n">>
    \o <<" ", " ", " ", " ", " ", " ", " ", " ", "c", "m", "d", "=", "\"", "$", "{", "{", "c", "m", "d", "#", "r", "g", "}", "}", "\"", ";", "\n">>
    \o <<" ", " ", " ", " ", " ", " ", " ", " ", "c", "m", "d", "=", "\"", "r", "g", " ", "{", "c", "o", "n", "f", "i", "g", "_", "a", "r", "g", "s", "}", " ", "{", "i", "m", "p", "l", "i", "c", "i", "t", "_", "o", "p", "t", "s", "}", "$", "c", "m", "d", "\"", ";", "\n">>
    \o <<" ", " ", " ", " ", "f", "i", ";", "\n">>
    \o <<" ", " ", " ", " ", "R", "I", "P", "G", "R", "E", "P", "_", "C", "O", "N", "F", "I", "G", "_", "P", "A", "T", "H", "=", " ", "e", "v", "a", "l", " ", "\"", "$", "c", "m", "d", "\"", " ", "2", ">", "/", "d", "e", "v", "/", "n", "u", "l", "l", " ", "|", " ", "{", "d", "e", "l", "t", "a", "}", "\n">>

START_RELOAD_INLINE_text ==
    <<"\n">>
    \o <<" ", " ", " ", " ", "p", "i", "n", "n", "e", "d", "_", "o", "p", "t", "s", "=", "\"", "\"", ";", "\n">>
    \o <<" ", " ", " ", " ", "c", "m", "d", "=", "{", "{", "q", "}", "}", ";", "\n">>
    \o <<" ", " ", " ", " ", "{", "g", "l", "o", "b", "_", "e", "x", "p", "a", "n", "d", "}", "\n">>
    \o <<" ", " ", " ", " ", "i", "f", " ", "[", "[", " ", "\"", "$", "c", "m", "d", "\"", " ", "=", "~", " ", "^", "r", "g", " ", "]", "]", ";", " ", "t", "h", "e", "n", "\n">>
    \o <<" ", " ", " ", " ", " ", " ", " ", " ", "c", "m", "d", "=", "\"", "$", "{", "{", "c", "m", "d", "#", "r", "g", "}", "}", "\"", ";", "\n">>
    \o <<" ", " ", " ", " ", " ", " ", " ", " ", "c", "m", "d", "=", "\"", "r", "g", " ", "{", "i", "m", "p", "l", "i", "c", "i", "t", "_", "o", "p", "t", "s", "}", "$", "c", "m", "d", "\"", ";", "\n">>
    \o <<" ", " ", " ", " ", "f", "i", ";", "\n">>
    \o <<" ", " ", " ", " ", "R", "I", "P", "G", "R", "E", "P", "_", "C", "O", "N", "F", "I", "G", "_", "P", "A", "T", "H", "=", " ", "e", "v", "a", "l", " ", "\"", "$", "c", "m", "d", "\"", " ", "2", ">", "/", "d", "e", "v", "/", "n", "u", "l", "l", " ", "|", " ", "{", "d", "e", "l", "t", "a", "}", "\n">>

TAB_COMPLETE_text ==
    <<"\n">>
    \o <<" ", " ", " ", " ", "q", "=", "\"", "$", "F", "Z", "F", "_", "Q", "U", "E", "R", "Y", "\"", ";", "\n">>
    \o <<" ", " ", " ", " ", "l", "a", "s", "t", "=", "\"", "$", "{", "q", "#", "#", "*", " ", "}", "\"", ";", "\n">>
    \o <<" ", " ", " ", " ", "[", "[", " ", "\"", "$", "l", "a", "s", "t", "\"", " ", "=", "=", " ", "-", "*", " ", "|", "|", " ", "-", "z", " ", "\"", "$", "l", "a", "s", "t", "\"", " ", "]", "]", " ", "&", "&", " ", "{", " ", "e", "c", "h", "o", " ", "\"", "$", "q", "\"", ";", " ", "e", "x", "i", "t", ";", " ", "}", ";", "\n">>
    \o <<" ", " ", " ", " ", "I", "F", "S", "=", "$", "'", "\\", "n", "'", " ", "r", "e", "a", "d", " ", "-", "d", " ", "'", "'", " ", "-", "r", "a", " ", "m", "a", "t", "c", "h", "e", "s", " ", "<", " ", "<", "(", "c", "o", "m", "p", "g", "e", "n", " ", "-", "f", " ", "-", "-", " ", "\"", "$", "l", "a", "s", "t", "\"", " ", "2", ">", "/", "d", "e", "v", "/", "n", "u", "l", "l", ";", " ", "p", "r", "i", "n", "t", "f", " ", "'", "\\", "0", "'", ")", ";", "\n">>
    \o <<" ", " ", " ", " ", "i", "f", " ", "[", "[", " ", "$", "{", "#", "m", "a", "t", "c", "h", "e", "s", "[", "@", "]", "}", " ", "-", "e", "q", " ", "1", " ", "]", "]", ";", " ", "t", "h", "e", "n", "\n">>
    \o <<" ", " ", " ", " ", " ", " ", " ", " ", "m", "=", "\"", "$", "{", "m", "a", "t", "c", "h", "e", "s", "[", "0", "]", "}", "\"", ";", "\n">>
    \o <<" ", " ", " ", " ", " ", " ", " ", " ", "[", "[", " ", "-", "d", " ", "\"", "$", "m", "\"", " ", "]", "]", " ", "&", "&", " ", "m", "=", "\"", "$", "m", "/", "\"", ";", "\n">>
    \o <<" ", " ", " ", " ", " ", " ", " ", " ", "e", "c", "h", "o", " ", "\"", "$", "{", "q", "%", " ", "*", "}", " ", "$", "m", "\"", ";", "\n">>
    \o <<" ", " ", " ", " ", "e", "l", "i", "f", " ", "[", "[", " ", "$", "{", "#", "m", "a", "t", "c", "h", "e", "s", "[", "@", "]", "}", " ", "-", "g", "t", " ", "1", " ", "]", "]", ";", " ", "t", "h", "e", "n", "\n">>
    \o <<" ", " ", " ", " ", " ", " ", " ", " ", "p", "f", "x", "=", "\"", "$", "{", "m", "a", "t", "c", "h", "e", "s", "[", "0", "]", "}", "\"", ";", "\n">>
    \o <<" ", " ", " ", " ", " ", " ", " ", " ", "f", "o", "r", " ", "m", " ", "i", "n", " ", "\"", "$", "{", "m", "a", "t", "c", "h", "e", "s", "[", "@", "]", "}", "\"", ";", " ", "d", "o", "\n">>
    \o <<" ", " ", " ", " ", " ", " ", " ", " ", " ", " ", " ", " ", "w", "h", "i", "l", "e", " ", "[", "[", " ", "\"", "$", "{", "m", ":", "0", ":", "$", "{", "#", "p", "f", "x", "}", "}", "\"", " ", "!", "=", " ", "\"", "$", "p", "f", "x", "\"", " ", "&", "&", " ", "-", "n", " ", "\"", "$", "p", "f", "x", "\"", " ", "]", "]", ";", " ", "d", "o", "\n">>
    \o <<" ", " ", " ", " ", " ", " ", " ", " ", " ", " ", " ", " ", " ", " ", " ", " ", "p", "f", "x", "=", "\"", "$", "{", "p", "f", "x", ":", "0", ":", "-", "1", "}", "\"", ";", "\n">>
    \o <<" ", " ", " ", " ", " ", " ", " ", " ", " ", " ", " ", " ", "d", "o", "n", "e", ";", "\n">>
    \o <<" ", " ", " ", " ", " ", " ", " ", " ", "d", "o", "n", "e", ";", "\n">>
    \o <<" ", " ", " ", " ", " ", " ", " ", " ", "[", "[", " ", "\"", "$", "p", "f", "x", "\"", " ", "!", "=", " ", "\"", "$", "l", "a", "s", "t", "\"", " ", "]", "]", " ", "&", "&", " ", "e", "c", "h", "o", " ", "\"", "$", "{", "q", "%", " ", "*", "}", " ", "$", "p", "f", "x", "\"", " ", "|", "|", " ", "e", "c", "h", "o", " ", "\"", "$", "q", "\"", ";", "\n">>
    \o <<" ", " ", " ", " ", "e", "l", "s", "e", "\n">>
    \o <<" ", " ", " ", " ", " ", " ", " ", " ", "e", "c", "h", "o", " ", "\"", "$", "q", "\"", ";", "\n">>
    \o <<" ", " ", " ", " ", "f", "i", "\n">>

KW_glob_expand ==
    <<"g", "l", "o", "b", "_", "e", "x", "p", "a", "n", "d">>
KW_implicit_opts ==
    <<"i", "m", "p", "l", "i", "c", "i", "t", "_", "o", "p", "t", "s">>
KW_delta ==
    <<"d", "e", "l", "t", "a">>
KW_config_args ==
    <<"c", "o", "n", "f", "i", "g", "_", "a", "r", "g", "s">>
NO_HEADING ==
    <<"-", "-", "n", "o", "-", "h", "e", "a", "d", "i", "n", "g">>

\* the characters str.split() takes for whitespace
Whitespace == {" ", "\t", "\n", "\r"}

\* oneline() turning line ends into blanks only
oneline_newlines_only(script) ==
    [i \in 1..Len(script) |-> IF script[i] = "\n" THEN " " ELSE script[i]]

\* a whitespace character of script[lo..hi], one near the middle; 0 if
\* there is none
WhitespaceIn(script, lo, hi) ==
    LET mid == (lo + hi) \div 2
        after == NextOf(script, mid, Whitespace)
        before == {k \in lo..(mid - 1) : script[k] \in Whitespace}
    IN  IF after <= hi THEN after
        ELSE IF before # {} THEN Last(before)
        ELSE 0

\* " ".join(words) for the words script.split() finds in script[lo..hi],
\* the maximal runs of characters that are not whitespace: the words
\* before a whitespace character, a blank, the words after it
RECURSIVE split_and_join(_, _, _)
split_and_join(script, lo, hi) ==
    IF lo > hi THEN <<>>
    ELSE LET k == WhitespaceIn(script, lo, hi)
         IN  IF k = 0 THEN SubSeq(script, lo, hi)
             ELSE LET left == split_and_join(script, lo, k - 1)
                      right == split_and_join(script, k + 1, hi)
                  IN  IF left = <<>> THEN right
                      ELSE IF right = <<>> THEN left
                      ELSE left \o <<" ">> \o right

\* oneline(): " ".join(script.split())
oneline(script) == split_and_join(script, 1, Len(script))

\* str.format() with keyword arguments kw: {{ and }} stand for one brace,
\* {name} for the value of the argument name
RECURSIVE format(_, _, _)
format(template, i, kw) ==
    LET j == NextOf(template, i, {"{", "}"})
        text == SubSeq(template, i, j - 1)
    IN  IF j > Len(template) THEN text
        ELSE IF j < Len(template) /\ template[j + 1] = template[j]
        THEN text \o <<template[j]>> \o format(template, j + 2, kw)
        ELSE LET close == NextOf(template, j + 1, {"}"})
             IN  text \o kw[SubSeq(template, j + 1, close - 1)]
                      \o format(template, close + 1, kw)

\* glob_expand = oneline(GLOB_EXPAND)
glob_expand == oneline(GLOB_EXPAND_text)

build_reload_transform(implicit_opts, delta) ==
    oneline(format(RELOAD_TRANSFORM_text, 1,
                   (KW_glob_expand :> glob_expand)
                   @@ (KW_implicit_opts :> implicit_opts)
                   @@ (KW_delta :> delta)))

build_start_reload_pinned(config_args, implicit_opts, delta) ==
    oneline(format(START_RELOAD_PINNED_text, 1,
                   (KW_glob_expand :> glob_expand)
                   @@ (KW_config_args :> config_args)
                   @@ (KW_implicit_opts :> implicit_opts)
                   @@ (KW_delta :> delta)))

build_start_reload_inline(implicit_opts, delta) ==
    oneline(format(START_RELOAD_INLINE_text, 1,
                   (KW_glob_expand :> glob_expand)
                   @@ (KW_implicit_opts :> implicit_opts)
                   @@ (KW_delta :> delta)))

build_tab_complete == oneline(TAB_COMPLETE_text)

\* the values the builders are called with: options and commands, some
\* with runs of blanks, line ends, tabs or a # in them
SubstitutionValues ==
    { <<>>, IMPLICIT_OPTS, DELTA,
      IMPLICIT_OPTS \o <<" ", " ">> \o NO_HEADING,
      HIDDEN \o <<"\n">> \o DASH_I,
      <<" ">> \o join(<<DASH_G, EXCL_TEST>>) \o <<"\t">>,
      IMPLICIT_OPTS \o <<" ", "#">> }

\* the values of a session; no builder called yet
FragmentInit ==
    /\ BuilderIdle
    /\ ToggleIdle
    /\ ShellIdle
    /\ finder = NoFinder
    /\ cli = NoCli
    /\ \E config_args \in SubstitutionValues,
          implicit_opts \in SubstitutionValues, delta \in SubstitutionValues :
          fragment = [NoFragment EXCEPT
                         !.values = [config_args |-> config_args,
                                     implicit_opts |-> implicit_opts,
                                     delta |-> delta]]

reload_transform_built ==
    /\ fragment' =
          [fragment EXCEPT
              !.builder = "build_reload_transform",
              !.text = build_reload_transform(fragment.values.implicit_opts,
                                              fragment.values.delta)]
    /\ UNCHANGED <<finder, cli>>
    /\ UNCHANGED <<builderVars, toggleVars, shellVars>>

start_reload_pinned_built ==
    /\ fragment' =
          [fragment EXCEPT
              !.builder = "build_start_reload_pinned",
              !.text = build_start_reload_pinned(fragment.values.config_args,
                                                 fragment.values.implicit_opts,
                                                 fragment.values.delta)]
    /\ UNCHANGED <<finder, cli>>
    /\ UNCHANGED <<builderVars, toggleVars, shellVars>>

start_reload_inline_built ==
    /\ fragment' =
          [fragment EXCEPT
              !.builder = "build_start_reload_inline",
              !.text = build_start_reload_inline(fragment.values.implicit_opts,
                                                 fragment.values.delta)]
    /\ UNCHANGED <<finder, cli>>
    /\ UNCHANGED <<builderVars, toggleVars, shellVars>>

tab_complete_built ==
    /\ fragment' = [fragment EXCEPT !.builder = "build_tab_complete",
                                    !.text = build_tab_complete]
    /\ UNCHANGED <<finder, cli>>
    /\ UNCHANGED <<builderVars, toggleVars, shellVars>>

FragmentNext ==
    \/ reload_transform_built
    \/ start_reload_pinned_built
    \/ start_reload_inline_built
    \/ tab_complete_built

SpecFragment == FragmentInit /\ [][FragmentNext]_vars

\* the characters before which a word of a shell command line begins
WordBreak == {" ", ";", "&", "|", "(", ")", "<", ">"}

\* the places of text where a # begins a word, and with it a comment
CommentStarts(text) ==
    {i \in 1..Len(text) :
        text[i] = "#" /\ (i = 1 \/ text[i - 1] \in WordBreak)}

\* C26: every fragment a builder returns, whatever the values filled in,
\* holds no line end and no tab, no two blanks in a row and no blank at
\* its start or end; and when no value filled in holds a #, no # of the
\* fragment begins a word, so that none of the # signs of the templates
\* starts a comment in the line.
C26_FragmentsAreOneLine ==
    fragment.builder # "none" =>
        LET text == fragment.text
        IN  /\ text # <<>>
            /\ \A i \in 1..Len(text) : text[i] \notin Whitespace \ {" "}
            /\ \A i \in 1..(Len(text) - 1) : ~(text[i] = " " /\ text[i + 1] = " ")
            /\ text[1] # " " /\ text[Len(text)] # " "
            /\ (\A name \in DOMAIN fragment.values :
                    Positions(fragment.values[name], "#") = {})
                  => /\ CommentStarts(text) = {}
                     /\ Positions(text, "#") # {}

\* the pinned start script built with config flags holding a line end and
\* implicit options holding two blanks in a row
C26_Witness ==
    /\ fragment.builder = "build_start_reload_pinned"
    /\ fragment.values.config_args = HIDDEN \o <<"\n">> \o DASH_I
    /\ fragment.values.implicit_opts = IMPLICIT_OPTS \o <<" ", " ">> \o NO_HEADING
    /\ fragment.values.delta = DELTA
    /\ CommentStarts(fragment.text) = {}
    /\ Positions(fragment.text, "\n") = {}
    /\ Positions(fragment.text, "#") # {}

-----------------------------------------------------------------------------
(* The two argument builders side by side: a FzfCommandBuilder and an App
   made from corresponding configurations get the same registrations, in
   the same order, and are asked for their arguments together. config is
   the FzfConfig; args and command_string hold the pair of results, the
   FzfCommandBuilder's first. *)

alt_right ==
    <<"a", "l", "t", "-", "r", "i", "g", "h", "t">>
forward_word ==
    <<"f", "o", "r", "w", "a", "r", "d", "-", "w", "o", "r", "d">>
alt_left ==
    <<"a", "l", "t", "-", "l", "e", "f", "t">>
backward_word ==
    <<"b", "a", "c", "k", "w", "a", "r", "d", "-", "w", "o", "r", "d">>
alt_up ==
    <<"a", "l", "t", "-", "u", "p">>
prev_history ==
    <<"p", "r", "e", "v", "-", "h", "i", "s", "t", "o", "r", "y">>
alt_down ==
    <<"a", "l", "t", "-", "d", "o", "w", "n">>
next_history ==
    <<"n", "e", "x", "t", "-", "h", "i", "s", "t", "o", "r", "y">>
ctrl_n ==
    <<"c", "t", "r", "l", "-", "n">>
down ==
    <<"d", "o", "w", "n">>

\* base_bindings() of fzf.py, as the items of the dict in order
base_bindings ==
    << <<ctrl_k, kill_line>>, <<alt_right, forward_word>>,
       <<alt_left, backward_word>>, <<alt_up, prev_history>>,
       <<alt_down, next_history>>, <<ctrl_p, up>>, <<ctrl_n, down>> >>

\* default_bindings() of app.py, as the items of the dict in order
default_bindings ==
    << <<ctrl_k, kill_line>>, <<alt_right, forward_word>>,
       <<alt_left, backward_word>>, <<alt_up, prev_history>>,
       <<alt_down, next_history>>, <<ctrl_p, up>>, <<ctrl_n, down>> >>

\* the Config that corresponds to the FzfConfig c: field for field the same
\* values, fzf_options holding what extra_args holds, and default_bindings()
\* where c was given base_bindings()
AsConfig(c) ==
    [f \in DOMAIN Config |->
        IF f = "fzf_options" THEN c.extra_args
        ELSE IF f = "bindings" /\ c.bindings = base_bindings THEN default_bindings
        ELSE c[f]]

\* FzfConfig() ... and FzfConfig(bindings=base_bindings(), ...)
PairConfigs ==
    FzfConfigs
    \cup { [c EXCEPT !.bindings = base_bindings] :
              c \in { d \in FzfConfigs : d.bindings = <<>> } }

PairInit ==
    /\ cls = "FzfCommandBuilder and App"
    /\ config \in PairConfigs
    /\ _bindings = <<>>
    /\ _actions = <<>>
    /\ args = NoResult
    /\ command_string = NoResult
    /\ ToggleIdle
    /\ ShellIdle
    /\ HostIdle

\* builder.add_binding(key, action, description) and
\* app.action(key, action, description)
register(key, act, description) ==
    /\ Len(_bindings) < MaxBindings
    /\ _bindings' = Append(_bindings, Binding(key, act, description))
    /\ _actions' = Append(_actions, Binding(key, act, description))
    /\ UNCHANGED <<cls, config, args, command_string>>
    /\ UNCHANGED <<toggleVars, shellVars, hostVars>>

\* build_args() and build_command_string() of both
build_both ==
    /\ args' = Result(Len(_bindings),
                      <<FzfCommandBuilder_build_args(config, _bindings),
                        App_build_args(AsConfig(config), _actions)>>)
    /\ command_string' =
          Result(Len(_bindings),
                 <<FzfCommandBuilder_build_command_string(config, _bindings),
                   App_build_command_string(AsConfig(config), _actions)>>)
    /\ UNCHANGED <<cls, config, _bindings, _actions>>
    /\ UNCHANGED <<toggleVars, shellVars, hostVars>>

PairNext ==
    \/ \E b \in Registrations : register(b.key, b.action, b.description)
    \/ build_both

SpecPair == PairInit /\ [][PairNext]_vars

\* C29: a FzfCommandBuilder and an App, made from configurations that
\* agree field for field (extra_args with fzf_options) and given the same
\* registrations in the same order, return the same list from build_args
\* and the same string from build_command_string, whenever they are asked;
\* and base_bindings() and default_bindings() hold the same items in the
\* same order.
C29_BuildersAgree ==
    /\ _bindings = _actions
    /\ args # NoResult => args.value[1] = args.value[2]
    /\ command_string # NoResult =>
          command_string.value[1] = command_string.value[2]
    /\ base_bindings = default_bindings

\* both were given base_bindings() / default_bindings(), raw flags and two
\* registrations: the seven bindings, the two registered ones and the raw
\* flags end both lists
C29_Witness ==
    /\ config.bindings = base_bindings
    /\ config.extra_args = <<FOOTER, S_plain>>
    /\ Len(_actions) = MaxBindings
    /\ args.at = MaxBindings
    /\ Count(BIND, args.value[2]) = Len(default_bindings) + MaxBindings
    /\ args.value[1] = args.value[2]
    /\ command_string.value[1] = command_string.value[2]

====
